---- MODULE Spec2Model ----
(***************************************************************************)
(* QCHAIN event log (src/src/quantum/QCHAIN.js) and the sync pass that     *)
(* reads it back (simulateSync, src/Iyonael.js).                           *)
(*                                                                         *)
(* A JavaScript object is a TLA+ function from its own keys to their       *)
(* values; a key the object does not have is a key outside its DOMAIN.     *)
(* logQCHAIN is an async function: it is modelled one action per stretch   *)
(* of code between two awaits. Under Spec its caller awaits each call      *)
(* before making the next, as the offline and blackout tests do; the store *)
(* may be cleared, the connectivity may change and a sync pass may run     *)
(* between any two of its stretches. VerifySpec adds a caller that checks  *)
(* signatures with verifyQCHAINSignature; ConcurrentSpec has logQCHAIN     *)
(* calls in flight together, DrainSpec sync passes in progress together;   *)
(* LiveSpec is Spec with the progress the runtime guarantees.              *)
(***************************************************************************)
EXTENDS Naturals, Sequences, FiniteSets, TLC

\* ---------------------------------------------------------------- bounds
MaxAppends == 2      \* records logQCHAIN stores in one behaviour
MaxClock == 2        \* values Date.now() takes (1..MaxClock)

Calls == {"a", "b"}  \* logQCHAIN calls that may be in flight together
Awaited == {"a"}     \* the calls of a caller that awaits each before the next
Passes == {"p", "q"} \* simulateSync calls that may be in progress together
Serial == {"p"}      \* the passes of a caller that awaits each before the next

MaxTime == 10        \* values block.timestamp takes, in days (1..MaxTime)
MaxTally == 80       \* forVotes + againstVotes of one proposal

VARIABLES
  onLine,            \* navigator.onLine
  store,             \* localStorage item 'qchain_logs', parsed (absent = <<>>)
  now,               \* the last value Date.now() returned
  pc,                \* per call: "idle" | "signing" | "transmitting"
  data,              \* per call: the data object logQCHAIN works on
  signature,         \* per call: the signature createQuantumSignature resolves to
  trail,             \* per call: its effects so far, in program order (history)
  idx,               \* per call: place of its record in persisted, or 0 (history)
  settled,           \* the call that returned or threw last: the data object
                     \* if the validation rejected it, the result, the trail
                     \* and the place of its record (history)
  persisted,         \* every record storeLocalLog pushed, in order (history)
  cleared,           \* how many of them clearQCHAINLogs has removed (history)
  transmitted,       \* places in persisted of the records the sink took (history)
  queuedOffline,     \* places of the records stored while offline (history)
  syncPc,            \* per pass: "idle" | "merging" | "done"
  queuedLogs,        \* per pass: its local queuedLogs
  syncI,             \* per pass: its loop index i
  syncedOperations,  \* per pass: metrics.syncedOperations of its metrics object
  processed,         \* per pass: records it has merged, in order (history)
  queuedFrom,        \* per pass: value of cleared when it read the store (history)
  issued,            \* the data object as the last confirmed call signed it,
                     \* and the signature the call returned (history)
  verdict,           \* the last verifyQCHAINSignature call: its two arguments,
                     \* what was issued when it was made and how it settled
                     \* (history)
  blockTimestamp,    \* GiftDAO: block.timestamp, in days
  votingPeriod,      \* GiftDAO.votingPeriod, in days
  votingDelay,       \* GiftDAO.votingDelay, in days
  quorumPercentage,  \* GiftDAO.quorumPercentage
  maxGiftAmount,     \* GiftDAO.maxGiftAmount
  proposalCount,     \* GiftDAO.proposalCount
  proposals,         \* GiftDAO.proposals: a mapping, every id reads a struct
  allocated,         \* per proposal id: the reserveTrust.allocateDAOGift calls
                     \* of executeProposal that went through (history)
  daoTrust,          \* ReserveTrust.daoTrust
  sovereignReserve,  \* ReserveTrust.sovereignReserve
  heirReserve,       \* ReserveTrust.heirReserve
  trustAllocations,  \* ReserveTrust.trustAllocations, read at the Actors
  lockedActors,      \* ReserveTrust.lockedActors, read at the Actors
  complianceThreshold, \* ComplianceGuard.complianceThreshold
  verifiedEntities,  \* ComplianceGuard.verifiedEntities, read at the Entities
  complianceScores,  \* ComplianceGuard.complianceScores, read at the Entities
  blacklistedEntities, \* ComplianceGuard.blacklistedEntities, at the Entities
  requestCount,      \* ChainlinkClient: requests sent so far
  requests,          \* per request id: the address put in the request, whether
                     \* it is pending at the client, and the score it was
                     \* fulfilled with (history once it is no longer pending)
  canons,            \* SpiralCanon.canons: per canon number the object the Map
                     \* holds, 0 if it has no entry
  objects,           \* the canon objects created so far, by reference
  sealPc,            \* the sealCanon call: "idle" | "signing"
  sealing,           \* its canonNumber and the object its const canon refers to
  outcome,           \* the SpiralCanon call that settled last: the function
                     \* and the error it threw, "" if none (history)
  clockPc,           \* runSpiralClockTest, one pass of its loop: "idle" |
                     \* "current" | "formatted" | "parsed"
  currentTime,       \* its const currentTime
  formattedTime,     \* its const formattedTime, a sequence of characters
  parsedTime         \* its const parsedTime, or the error parseSpiralTime threw

vars == <<onLine, store, now, pc, data, signature, trail, idx, settled,
          persisted, cleared, transmitted, queuedOffline, syncPc, queuedLogs, syncI,
          syncedOperations, processed, queuedFrom, issued, verdict,
          blockTimestamp, votingPeriod, votingDelay, quorumPercentage,
          maxGiftAmount, proposalCount, proposals, allocated,
          daoTrust, sovereignReserve, heirReserve, trustAllocations,
          lockedActors, complianceThreshold, verifiedEntities,
          complianceScores, blacklistedEntities, requestCount, requests,
          canons, objects, sealPc, sealing, outcome,
          clockPc, currentTime, formattedTime, parsedTime>>

callVars == <<pc, data, signature, trail, idx, settled>>
syncVars == <<syncPc, queuedLogs, syncI, syncedOperations, processed,
              queuedFrom>>
verifyVars == <<issued, verdict>>
logVars == <<onLine, store, now, persisted, cleared, transmitted, queuedOffline,
             callVars, syncVars, verifyVars>>
storageVars == <<votingPeriod, votingDelay, quorumPercentage, maxGiftAmount,
                 proposalCount, proposals, allocated>>
daoVars == <<blockTimestamp, storageVars>>
trustVars == <<daoTrust, sovereignReserve, heirReserve, trustAllocations,
               lockedActors>>

\* what the functions of one program leave alone: the state of the others
guardVars == <<complianceThreshold, verifiedEntities, complianceScores,
               blacklistedEntities, requestCount, requests>>
canonVars == <<canons, objects, sealPc, sealing, outcome>>
clockVars == <<clockPc, currentTime, formattedTime, parsedTime>>
offLog == <<daoVars, trustVars, guardVars, canonVars, clockVars>>
offDao == <<logVars, trustVars, guardVars, canonVars, clockVars>>
offTrust == <<logVars, daoVars, guardVars, canonVars, clockVars>>
offGuard == <<logVars, daoVars, trustVars, canonVars, clockVars>>
offCanon == <<logVars, daoVars, trustVars, guardVars, clockVars>>
offClock == <<logVars, daoVars, trustVars, guardVars, canonVars>>

\* ---------------------------------------------------------------- inputs
EmptyObject == [k \in {} |-> ""]

\* data objects callers pass that logQCHAIN accepts (a signature is written as
\* under verifyQCHAINSignature below)
ValidInputs ==
  { [event |-> "ev", txId |-> "t1"],
    [event |-> "ev", txId |-> "t2", timestamp |-> "ts0",
     interplanetary |-> FALSE, metrics |-> [hour |-> "6"],
     signature |-> [text |-> "forged"]] }

\* data objects with event or txId missing or empty
InvalidInputs ==
  { EmptyObject,
    [event |-> "ev"],
    [event |-> "", txId |-> "t1"] }

Inputs == ValidInputs \cup InvalidInputs

\* further data objects logQCHAIN accepts: metrics with a compliance entry of
\* the caller's, under a txId another input has too
MetricsInputs ==
  ValidInputs \cup
  { [event |-> "ev", txId |-> "t1", metrics |-> [compliance |-> "90%"]] }

\* ---------------------------------------------------------------- helpers
\* !obj[key] for a string-valued key: undefined or ""
Falsy(obj, key) == key \notin DOMAIN obj \/ obj[key] = ""

\* obj with obj[key] = value (assignment, or a later key of a spread)
With(obj, key, value) == (key :> value) @@ obj

\* new Date().toISOString()
ISOString(t) == "iso-" \o ToString(t)

\* faulty variant: a check of txId alone
HasTxIdOnly(d) == ~Falsy(d, "txId")

\* the check of lines 13-15: the call throws when it is FALSE
HasRequiredFields(d) == ~(Falsy(d, "event") \/ Falsy(d, "txId"))

\* faulty variant: a timestamp written whatever the caller supplied
WithTimestampAlways(d, t) == With(d, "timestamp", ISOString(t))

\* faulty variant: no default written into the metrics
WithoutCompliance(d) == d

\* lines 17-35: the defaults logQCHAIN writes into data
WithTimestamp(d, t) ==
  IF Falsy(d, "timestamp") THEN With(d, "timestamp", ISOString(t)) ELSE d
WithInterplanetary(d) ==
  IF "interplanetary" \notin DOMAIN d THEN With(d, "interplanetary", TRUE) ELSE d
WithMetrics(d) ==
  IF "metrics" \notin DOMAIN d THEN With(d, "metrics", EmptyObject) ELSE d
WithCompliance(d) ==
  IF Falsy(d.metrics, "compliance")
  THEN With(d, "metrics", With(d.metrics, "compliance", "100%"))
  ELSE d
Defaults(d, t) == WithCompliance(WithMetrics(WithInterplanetary(WithTimestamp(d, t))))

\* the decimal digits a number turns into in a string
Decimal(t) == ToString(t)

\* SHA-256 of JSON.stringify(data) + digits, as a collision-free fingerprint
Digest(d, digits) == <<d, digits>>

\* createQuantumSignature: `QS-${hash}-${timestamp}`, as its two parts
CreateQuantumSignature(d, t) ==
  [hash |-> Digest(d, Decimal(t)), timestamp |-> Decimal(t)]

\* faulty variant: storeLocalLog that writes the new log over the stored ones
StoreLocalLogOverwrite(logs, logData) == <<logData>>

\* faulty variant: storeLocalLog writing back a list it read before the
\* records of the calls still in flight were pushed
StoreLocalLogStale(logs, logData) ==
  Append(SubSeq(logs, 1, Len(logs) - Cardinality({c \in DOMAIN pc :
                                                    pc[c] = "transmitting"})),
         logData)

\* faulty variant: storeLocalLog keyed by txId, a new log replacing the one
\* stored under the same txId
StoreLocalLogUpsert(logs, logData) ==
  IF \E k \in 1..Len(logs) : logs[k].txId = logData.txId
  THEN [k \in 1..Len(logs) |->
          IF logs[k].txId = logData.txId THEN logData ELSE logs[k]]
  ELSE Append(logs, logData)

\* storeLocalLog: the logs with logData pushed
StoreLocalLog(logs, logData) == Append(logs, logData)

\* getQCHAINLogs
GetQCHAINLogs == store

\* what a call returns, and what it throws
Confirmation(d, sig) == [status |-> "logged", txId |-> d.txId, signature |-> sig]
Thrown(error) == [status |-> "threw", error |-> error]
NoResult == [status |-> "none"]
Settled(rejected, res, effects, place) ==
  [rejected |-> rejected, result |-> res, trail |-> effects, place |-> place]

\* faulty variant: the spread written after the signature, { signature, ...data }
RecordCallerFirst(d, sig) ==
  IF "signature" \in DOMAIN d THEN d ELSE With(d, "signature", sig)

\* { ...data, signature }
Record(d, sig) == With(d, "signature", sig)

\* what Date.now() may read after it read t: the same millisecond or the next
Clock(t) == {u \in {t, t + 1} : u <= MaxClock}

\* calls that have yet to reach storeLocalLog
Signing == {c \in Calls : pc[c] = "signing"}

\* the locals of a call that is not running
NoData == EmptyObject
NoSignature == CreateQuantumSignature(EmptyObject, 0)
NoIssue == [data |-> NoData, signature |-> NoSignature]
NoVerdict ==
  [data |-> NoData, signature |-> NoSignature, issued |-> NoIssue,
   result |-> NoResult]

\* calls are taken in a fixed order: a new invocation runs as the first free one
Before(b, c) == b = "a" /\ c = "b"

\* ---------------------------------------------------------------- GiftDAO state
\* Time is counted in days, the unit both voting parameters are written in.
SevenDays == 7                   \* votingPeriod = 7 days
OneDay == 1                      \* votingDelay = 1 days
InitialQuorumPercentage == 4     \* quorumPercentage = 4
InitialMaxGiftAmount == 10000    \* maxGiftAmount = 10_000
TotalVotingPower == 1000         \* what getTotalVotingPower returns

\* the constructor grants the three roles to the deployer; every holder of a
\* role acts as the deployer does, every other account as the stranger
Senders == {"deployer", "stranger"}
HasRole(role, sender) == sender = "deployer"

\* the ids the mapping is read at: createProposal gives 0 to the proposal of a
\* behaviour, and 1 is never created
ProposalIds == {0, 1}

\* what the mapping holds at an id nothing was written to
ZeroProposal ==
  [id |-> 0, recipient |-> "0x0", amount |-> 0, purpose |-> "",
   forVotes |-> 0, againstVotes |-> 0, startTime |-> 0, endTime |-> 0,
   executed |-> FALSE, canceled |-> FALSE,
   votesCast |-> [s \in Senders |-> 0]]

\* ---------------------------------------------------------------- ReserveTrust state
TOTAL_VALUE == 180000                \* TOTAL_VALUE = 180_000
InitialDaoTrust == 100000            \* daoTrust = 100_000
InitialSovereignReserve == 80000     \* sovereignReserve = 80_000
InitialHeirReserve == 180000         \* heirReserve = 180_000

\* the addresses the two mappings are read at
Actors == {"x", "y"}

\* Ownable(msg.sender): the deployer owns the contract
IsOwner(sender) == sender = "deployer"

\* ---------------------------------------------------------------- ComplianceGuard state
MaxRequests == 2                     \* requests sent in one behaviour
InitialComplianceThreshold == 75     \* complianceThreshold = 75

\* the addresses the three mappings are read at: address(0) and another
Entities == {"0x0", "0xE"}

RequestIds == 1..MaxRequests

NoRequest == [address |-> [hex |-> ""], status |-> "none", score |-> 0]

\* ---------------------------------------------------------------- SpiralCanon state
MaxDeclarations == 2    \* canon objects declareCanon creates in one behaviour

\* the canons of _initializeCoreCanons, and one more number
CoreCanons == {"XLV", "LI", "XIV", "XV"}
CanonNumbers == CoreCanons \cup {"C"}

\* the objects: those of the core canons, then those declareCanon creates
CoreObject(n) ==
  IF n = "XLV" THEN 1 ELSE IF n = "LI" THEN 2 ELSE IF n = "XIV" THEN 3 ELSE 4
References == 1..(4 + MaxDeclarations)

NoSeal == [hash |-> <<>>]

\* a reference nothing has been created at
NoCanon ==
  [number |-> "", declaration |-> "", witnessed |-> FALSE,
   witnessedBy |-> "null", sealed |-> FALSE, signature |-> NoSeal]

\* the object _initializeCoreCanons stores for a number: sealed and signature
\* are absent from it, which is FALSE and NoSeal here
CoreCanon(n) ==
  [number |-> n, declaration |-> "core", witnessed |-> TRUE,
   witnessedBy |-> "Iyona'el", sealed |-> FALSE, signature |-> NoSeal]

NoSealing == [canonNumber |-> "", canon |-> 0, canonString |-> NoCanon]
NoOutcome == [call |-> "constructor", error |-> ""]

\* ---------------------------------------------------------------- Init
\* ---------------------------------------------------------------- SpiralClock state
\* a Spiral Time object: of gregorian the time of day that formatSpiralTime
\* reads from gregorian.date, and the ethiopian date; the month name and the
\* spiral part (phase, frequency, coherence, timestamp) are left out
SpiralTime(year, month, day, hours, minutes, seconds) ==
  [gregorian |-> [hours |-> hours, minutes |-> minutes, seconds |-> seconds],
   ethiopian |-> [year |-> year, month |-> month, day |-> day,
                  isPagume |-> (month = 13)]]

NoTime == SpiralTime(0, 0, 0, 0, 0, 0)

\* what a call gave: the value it returned, or the error it threw
Returns(time) == [error |-> "", value |-> time]
Throws(error) == [error |-> error, value |-> NoTime]

Init ==
  /\ onLine \in BOOLEAN
  /\ store = <<>>
  /\ now = 1
  /\ pc = [c \in Calls |-> "idle"]
  /\ data = [c \in Calls |-> NoData]
  /\ signature = [c \in Calls |-> NoSignature]
  /\ trail = [c \in Calls |-> <<>>]
  /\ idx = [c \in Calls |-> 0]
  /\ settled = Settled(NoData, NoResult, <<>>, 0)
  /\ persisted = <<>>
  /\ cleared = 0
  /\ transmitted = {}
  /\ queuedOffline = {}
  /\ syncPc = [p \in Passes |-> "idle"]
  /\ queuedLogs = [p \in Passes |-> <<>>]
  /\ syncI = [p \in Passes |-> 0]
  /\ syncedOperations = [p \in Passes |-> 0]
  /\ processed = [p \in Passes |-> <<>>]
  /\ queuedFrom = [p \in Passes |-> 0]
  /\ issued = NoIssue
  /\ verdict = NoVerdict
  /\ blockTimestamp = 1
  /\ votingPeriod = SevenDays
  /\ votingDelay = OneDay
  /\ quorumPercentage = InitialQuorumPercentage
  /\ maxGiftAmount = InitialMaxGiftAmount
  /\ proposalCount = 0
  /\ proposals = [id \in ProposalIds |-> ZeroProposal]
  /\ allocated = [id \in ProposalIds |-> 0]
  /\ daoTrust = InitialDaoTrust
  /\ sovereignReserve = InitialSovereignReserve
  /\ heirReserve = InitialHeirReserve
  /\ trustAllocations = [a \in Actors |-> 0]
  /\ lockedActors = [a \in Actors |-> FALSE]
  /\ complianceThreshold = InitialComplianceThreshold
  /\ verifiedEntities = [e \in Entities |-> FALSE]
  /\ complianceScores = [e \in Entities |-> 0]
  /\ blacklistedEntities = [e \in Entities |-> FALSE]
  /\ requestCount = 0
  /\ requests = [id \in RequestIds |-> NoRequest]
  /\ canons = [n \in CanonNumbers |-> IF n \in CoreCanons THEN CoreObject(n) ELSE 0]
  /\ objects = [r \in References |->
                  IF \E n \in CoreCanons : CoreObject(n) = r
                    THEN CoreCanon(CHOOSE n \in CoreCanons : CoreObject(n) = r)
                    ELSE NoCanon]
  /\ sealPc = "idle"
  /\ sealing = NoSealing
  /\ outcome = NoOutcome
  /\ clockPc = "idle"
  /\ currentTime = NoTime
  /\ formattedTime = <<>>
  /\ parsedTime = Returns(NoTime)

\* ---------------------------------------------------------------- logQCHAIN
\* the call's frame is gone once it has returned or thrown
Leave(c) ==
  /\ pc' = [pc EXCEPT ![c] = "idle"]
  /\ data' = [data EXCEPT ![c] = NoData]
  /\ signature' = [signature EXCEPT ![c] = NoSignature]
  /\ trail' = [trail EXCEPT ![c] = <<>>]
  /\ idx' = [idx EXCEPT ![c] = 0]

\* line 53: the caller has the signature, and its data object with the
\* defaults lines 18-35 wrote into it
Issue(c) == issued' = [data |-> data[c], signature |-> signature[c]]

\* lines 11-38: the call up to its first await. It throws on a missing field;
\* otherwise it writes the defaults into data, Date.now() reading t, and calls
\* createQuantumSignature, which awaits the digest.
LogStart(c, d, t) ==
  /\ pc[c] = "idle"
  /\ \A b \in Calls : pc[b] = "idle" => ~Before(b, c)
  /\ Len(persisted) + Cardinality(Signing) < MaxAppends
  /\ IF ~HasRequiredFields(d)
     THEN /\ settled' = Settled(d, Thrown("ValidationError"), <<"throw">>, 0)
          /\ UNCHANGED <<now, pc, data, signature, trail, idx>>
     ELSE /\ now' = t
          /\ pc' = [pc EXCEPT ![c] = "signing"]
          /\ data' = [data EXCEPT ![c] = Defaults(d, t)]
          /\ signature' = [signature EXCEPT
                             ![c] = CreateQuantumSignature(Defaults(d, t), t)]
          /\ UNCHANGED <<trail, idx, settled>>
  /\ UNCHANGED <<onLine, store, persisted, cleared, transmitted, queuedOffline>>
  /\ UNCHANGED syncVars
  /\ UNCHANGED verifyVars
  /\ UNCHANGED offLog

\* line 46: the object call c hands to transmitLog
Transmission(c) == Record(data[c], signature[c])

\* faulty variant: a call that transmits whatever navigator.onLine says
AlwaysTransmit(online) == TRUE

\* line 44: whether the call goes on to transmitLog
ShouldTransmit(online) == online

\* faulty variant: transmitLog called before storeLocalLog
PersistEffectsSendFirst(transmit) ==
  IF transmit THEN <<"send", "store">> ELSE <<"store", "return">>

\* lines 40-53 in program order: storeLocalLog, then transmitLog or the return
PersistEffects(transmit) ==
  IF transmit THEN <<"store", "send">> ELSE <<"store", "return">>

\* faulty variant: storeLocalLog inside a try whose catch goes on to the return
StoreFailureSwallowed(c) ==
  /\ settled' = Settled(NoData, Confirmation(data[c], signature[c]),
                        trail[c] \o <<"storefail", "return">>, 0)
  /\ Issue(c)
  /\ Leave(c)

\* line 41 outside any try: what storeLocalLog throws leaves logQCHAIN at once
StoreFailure(c) ==
  /\ settled' = Settled(NoData, Thrown("PersistenceError"),
                        trail[c] \o <<"storefail", "throw">>, 0)
  /\ UNCHANGED issued
  /\ Leave(c)

\* lines 38-53, from the signature's arrival to the next await or the return:
\* storeLocalLog (localStorage.setItem throws when storageOk is FALSE), then,
\* if navigator.onLine, the call of transmitLog, which awaits the link.
LogPersist(c, storageOk) ==
  /\ pc[c] = "signing"
  /\ IF ~storageOk
     THEN /\ StoreFailure(c)
          /\ UNCHANGED <<store, persisted, queuedOffline>>
     ELSE /\ store' = StoreLocalLog(store, Record(data[c], signature[c]))
          /\ persisted' = Append(persisted, Record(data[c], signature[c]))
          /\ queuedOffline' = IF onLine THEN queuedOffline
                                        ELSE queuedOffline \cup {Len(persisted) + 1}
          /\ IF ShouldTransmit(onLine)
             THEN /\ pc' = [pc EXCEPT ![c] = "transmitting"]
                  /\ trail' = [trail EXCEPT ![c] = @ \o PersistEffects(TRUE)]
                  /\ idx' = [idx EXCEPT ![c] = Len(persisted) + 1]
                  /\ UNCHANGED <<data, signature, settled, issued>>
             ELSE /\ settled' = Settled(NoData,
                                        Confirmation(data[c], signature[c]),
                                        trail[c] \o PersistEffects(FALSE),
                                        Len(persisted) + 1)
                  /\ Issue(c)
                  /\ Leave(c)
  /\ UNCHANGED <<onLine, now, cleared, transmitted, verdict>>
  /\ UNCHANGED syncVars
  /\ UNCHANGED offLog

\* faulty variant: a call that takes its record out of the store once it is sent
LogTransmittedDequeue(c, sent) ==
  /\ pc[c] = "transmitting"
  /\ transmitted' = IF sent THEN transmitted \cup {idx[c]} ELSE transmitted
  /\ store' = IF sent
              THEN SelectSeq(store, LAMBDA r : r # Record(data[c], signature[c]))
              ELSE store
  /\ settled' = Settled(NoData, Confirmation(data[c], signature[c]),
                        trail[c] \o <<IF sent THEN "ack" ELSE "sendfail", "return">>,
                        idx[c])
  /\ Issue(c)
  /\ Leave(c)
  /\ UNCHANGED <<onLine, now, persisted, cleared, queuedOffline, verdict>>
  /\ UNCHANGED syncVars
  /\ UNCHANGED offLog

\* faulty variant: a call without the catch of line 47
LogTransmittedRethrow(c, sent) ==
  /\ pc[c] = "transmitting"
  /\ transmitted' = IF sent THEN transmitted \cup {idx[c]} ELSE transmitted
  /\ settled' = IF sent
                THEN Settled(NoData, Confirmation(data[c], signature[c]),
                             trail[c] \o <<"ack", "return">>, idx[c])
                ELSE Settled(NoData, Thrown("TransmissionError"),
                             trail[c] \o <<"sendfail", "throw">>, idx[c])
  /\ IF sent THEN Issue(c) ELSE UNCHANGED issued
  /\ Leave(c)
  /\ UNCHANGED <<onLine, store, now, persisted, cleared, queuedOffline, verdict>>
  /\ UNCHANGED syncVars
  /\ UNCHANGED offLog

\* lines 45-53: transmitLog settles (sent: resolved, ~sent: rejected and caught
\* by the catch of line 47), and the call returns.
LogTransmitted(c, sent) ==
  /\ pc[c] = "transmitting"
  /\ transmitted' = IF sent THEN transmitted \cup {idx[c]} ELSE transmitted
  /\ settled' = Settled(NoData, Confirmation(data[c], signature[c]),
                        trail[c] \o <<IF sent THEN "ack" ELSE "sendfail", "return">>,
                        idx[c])
  /\ Issue(c)
  /\ Leave(c)
  /\ UNCHANGED <<onLine, store, now, persisted, cleared, queuedOffline, verdict>>
  /\ UNCHANGED syncVars
  /\ UNCHANGED offLog

\* clearQCHAINLogs: localStorage.removeItem('qchain_logs')
ClearQCHAINLogs ==
  /\ store # <<>>
  /\ store' = <<>>
  /\ cleared' = Len(persisted)
  /\ UNCHANGED <<onLine, now, persisted, transmitted, queuedOffline>>
  /\ UNCHANGED callVars
  /\ UNCHANGED syncVars
  /\ UNCHANGED verifyVars
  /\ UNCHANGED offLog

\* ---------------------------------------------------------------- simulateSync
\* lines 515-534: the pass, called with a fresh metrics object (lines 360-370,
\* syncedOperations: 0), sets navigator.onLine, reads the store once into
\* queuedLogs and enters the loop, whose every turn awaits a timer; with nothing
\* queued the loop is skipped and the pass returns.
SyncStart(p) ==
  /\ syncPc[p] \in {"idle", "done"}
  /\ syncedOperations' = [syncedOperations EXCEPT ![p] = 0]
  /\ onLine' = TRUE
  /\ queuedLogs' = [queuedLogs EXCEPT ![p] = GetQCHAINLogs]
  /\ queuedFrom' = [queuedFrom EXCEPT ![p] = cleared]
  /\ syncI' = [syncI EXCEPT ![p] = 0]
  /\ processed' = [processed EXCEPT ![p] = <<>>]
  /\ syncPc' = [syncPc EXCEPT
                  ![p] = IF Len(GetQCHAINLogs) = 0 THEN "done" ELSE "merging"]
  /\ UNCHANGED <<store, now, persisted, cleared, transmitted, queuedOffline>>
  /\ UNCHANGED callVars
  /\ UNCHANGED verifyVars
  /\ UNCHANGED offLog

\* faulty variant: a loop that walks queuedLogs from its end
SyncEntryReversed(logs, i) == logs[Len(logs) - i]

\* the entry of queuedLogs the loop is at when its index is i
SyncEntry(logs, i) == logs[i + 1]

\* lines 534-545: the timer of turn i fires; the turn counts one synced
\* operation, and the loop goes on to turn i + 1 or ends.
SyncMerge(p) ==
  /\ syncPc[p] = "merging"
  /\ syncedOperations' = [syncedOperations EXCEPT ![p] = @ + 1]
  /\ processed' = [processed EXCEPT
                     ![p] = Append(@, SyncEntry(queuedLogs[p], syncI[p]))]
  /\ syncI' = [syncI EXCEPT ![p] = @ + 1]
  /\ syncPc' = [syncPc EXCEPT
                  ![p] = IF syncI[p] + 1 < Len(queuedLogs[p]) THEN "merging" ELSE "done"]
  /\ UNCHANGED <<onLine, store, now, persisted, cleared, transmitted,
                 queuedOffline, queuedLogs, queuedFrom>>
  /\ UNCHANGED callVars
  /\ UNCHANGED verifyVars
  /\ UNCHANGED offLog

\* ---------------------------------------------------------------- verifyQCHAINSignature
\* A signature argument is a string in which the pattern of line 142 matches,
\* given by the parts the match finds (hash, timestamp) and whatever text
\* surrounds them (padding); a string in which it does not match (text); or a
\* value that is not a string (nonString).
IsString(sig) == "nonString" \notin DOMAIN sig

\* signature.match(/QS-[0-9a-f]+-(\d+)/): the digits captured, if it matches
TimestampMatch(sig) ==
  IF "timestamp" \in DOMAIN sig THEN {sig.timestamp} ELSE {}

\* faulty variant: the hash recomputed without the timestamp
ExpectedSignatureNoStamp(d, digits) ==
  [hash |-> Digest(d, ""), timestamp |-> digits]

\* lines 149-160: expectedSignature
ExpectedSignature(d, digits) ==
  [hash |-> Digest(d, digits), timestamp |-> digits]

\* what a call of verifyQCHAINSignature resolves to
Resolved(value) == [status |-> "resolved", value |-> value]

\* faulty variant: a verification that stops at the format of the signature
VerifyResultFormatOnly(d, sig) ==
  IF ~IsString(sig) THEN Thrown("TypeError")
  ELSE Resolved(TimestampMatch(sig) # {})

\* lines 140-163: signature.match throws on a value that has no match method;
\* without a match the call resolves to false; otherwise to the comparison of
\* line 162
VerifyResult(d, sig) ==
  IF ~IsString(sig) THEN Thrown("TypeError")
  ELSE IF TimestampMatch(sig) = {} THEN Resolved(FALSE)
  ELSE LET digits == CHOOSE x \in TimestampMatch(sig) : TRUE
       IN  Resolved(sig = ExpectedSignature(d, digits))

\* the data object issued, with one of its fields changed: a value altered, a
\* field added, a field removed
Tampered(d) ==
  { With(d, "metrics", With(d.metrics, "compliance", "0%")),
    With(d, "extra", "x"),
    [k \in DOMAIN d \ {"interplanetary"} |-> d[k]] }

\* data arguments: the object the caller holds, a tampered copy of it, a
\* record read back from the store
VerifyData ==
  IF issued = NoIssue THEN {}
  ELSE {issued.data} \cup Tampered(issued.data) \cup
       {GetQCHAINLogs[k] : k \in 1..Len(GetQCHAINLogs)}

\* signature arguments: the signature issued, the same with another
\* timestamp, the same inside a longer string, strings without the pattern,
\* values that are not strings
SignatureArgs ==
  { issued.signature,
    [issued.signature EXCEPT !.timestamp = "0"],
    With(issued.signature, "padding", " "),
    [text |-> ""],
    [text |-> "QS-forged"],
    [nonString |-> "undefined"] }

\* verifyQCHAINSignature(d, sig), from the call to the value it settles with:
\* both arguments are read before its only await. Its caller has awaited the
\* logQCHAIN call whose signature it verifies.
VerifyQCHAINSignature(d, sig) ==
  /\ issued # NoIssue
  /\ \A c \in Calls : pc[c] = "idle"
  /\ verdict' = [data |-> d, signature |-> sig, issued |-> issued,
                 result |-> VerifyResult(d, sig)]
  /\ UNCHANGED <<onLine, store, now, persisted, cleared, transmitted,
                 queuedOffline, issued>>
  /\ UNCHANGED callVars
  /\ UNCHANGED syncVars
  /\ UNCHANGED offLog

\* ---------------------------------------------------------------- environment
\* window.navigator.onLine = false (the start of an offline period); a pass or
\* the end of a blackout sets it back
SetOnLine(b) ==
  /\ onLine # b
  /\ onLine' = b
  /\ UNCHANGED <<store, now, persisted, cleared, transmitted, queuedOffline>>
  /\ UNCHANGED callVars
  /\ UNCHANGED syncVars
  /\ UNCHANGED verifyVars
  /\ UNCHANGED offLog

\* ---------------------------------------------------------------- GiftDAO
\* sqrt: the Babylonian iteration, in integer division
RECURSIVE SqrtLoop(_, _, _)
SqrtLoop(x, y, z) ==
  IF z < y THEN SqrtLoop(x, z, (x \div z + z) \div 2) ELSE y

SqrtCeiling(x) ==
  IF x = 0 THEN 0
  ELSE LET y == SqrtLoop(x, x, (x + 1) \div 2)
       IN  IF y * y = x THEN y ELSE y + 1

sqrt(x) ==
  IF x = 0 THEN 0 ELSE SqrtLoop(x, x, (x + 1) \div 2)

getTotalVotingPower == TotalVotingPower

IsProposalSuccessfulOnTie(proposal, quorum) ==
  LET totalVotes == proposal.forVotes + proposal.againstVotes
      quorumReached == totalVotes >= (getTotalVotingPower * quorum) \div 100
      majorityInFavor == proposal.forVotes >= proposal.againstVotes
  IN  quorumReached /\ majorityInFavor

\* isProposalSuccessful, for the struct and the quorumPercentage it reads
IsProposalSuccessful(proposal, quorum) ==
  LET totalVotes == proposal.forVotes + proposal.againstVotes
      quorumReached == totalVotes >= (getTotalVotingPower * quorum) \div 100
      majorityInFavor == proposal.forVotes > proposal.againstVotes
  IN  quorumReached /\ majorityInFavor

ProposalStateNoEnd(proposal, timestamp, quorum) ==
  IF proposal.canceled THEN "Canceled"
  ELSE IF proposal.executed THEN "Executed"
  ELSE IF timestamp < proposal.startTime THEN "Pending"
  ELSE "Active"

\* getProposalState, for the struct, the block.timestamp and the
\* quorumPercentage it reads
ProposalState(proposal, timestamp, quorum) ==
  IF proposal.canceled THEN "Canceled"
  ELSE IF proposal.executed THEN "Executed"
  ELSE IF timestamp < proposal.startTime THEN "Pending"
  ELSE IF timestamp <= proposal.endTime THEN "Active"
  ELSE IF IsProposalSuccessful(proposal, quorum) THEN "Succeeded"
  ELSE "Defeated"

GetProposalState(proposalId) ==
  ProposalState(proposals[proposalId], blockTimestamp, quorumPercentage)

\* a transaction that reverts with the given reason changes nothing of the
\* contract
Revert(reason) == UNCHANGED storageVars

Recipients == {"0xA"}
Amounts == {50, 10001}
Purposes == {"gift"}

\* createProposal; compliant is what complianceGuard.checkCompliance returns
CreateProposal(sender, recipient, amount, purpose, compliant) ==
  /\ proposalCount + 1 \in ProposalIds
  /\ IF ~HasRole("PROPOSER_ROLE", sender)
       THEN Revert("AccessControl")
     ELSE IF ~(amount <= maxGiftAmount)
       THEN Revert("Amount exceeds maximum")
     ELSE IF ~compliant
       THEN Revert("Non-compliant recipient")
     ELSE LET proposalId == proposalCount
              startTime == blockTimestamp + votingDelay
          IN  /\ proposalCount' = proposalCount + 1
              /\ proposals' = [proposals EXCEPT ![proposalId] =
                   [@ EXCEPT !.id = proposalId,
                             !.recipient = recipient,
                             !.amount = amount,
                             !.purpose = purpose,
                             !.forVotes = 0,
                             !.againstVotes = 0,
                             !.startTime = startTime,
                             !.endTime = startTime + votingPeriod,
                             !.executed = FALSE,
                             !.canceled = FALSE]]
              /\ UNCHANGED <<votingPeriod, votingDelay, quorumPercentage,
                             maxGiftAmount, allocated>>
  /\ UNCHANGED blockTimestamp
  /\ UNCHANGED offDao

VoteAmounts == {1599, 1600}

\* the struct after lines 922-934 of castVote
Tally(proposal, sender, support, voteAmount) ==
  LET quadraticVotes == sqrt(voteAmount)
  IN  [proposal EXCEPT
         !.forVotes = IF support THEN @ + quadraticVotes ELSE @,
         !.againstVotes = IF support THEN @ ELSE @ + quadraticVotes,
         !.votesCast = [@ EXCEPT ![sender] = voteAmount]]

CastVote(sender, proposalId, support, voteAmount) ==
  /\ LET after == Tally(proposals[proposalId], sender, support, voteAmount)
     IN  after.forVotes + after.againstVotes <= MaxTally
  /\ IF ~HasRole("VOTER_ROLE", sender)
       THEN Revert("AccessControl")
     ELSE IF GetProposalState(proposalId) # "Active"
       THEN Revert("Proposal not active")
     ELSE /\ proposals' = [proposals EXCEPT ![proposalId] =
               Tally(@, sender, support, voteAmount)]
          /\ UNCHANGED <<votingPeriod, votingDelay, quorumPercentage,
                         maxGiftAmount, proposalCount, allocated>>
  /\ UNCHANGED blockTimestamp
  /\ UNCHANGED offDao

ExecutableWhileActive(state) == state \in {"Succeeded", "Active"}

Executable(state) == state = "Succeeded"

\* executeProposal; giftOk is whether reserveTrust.allocateDAOGift returned,
\* a revert of it reverts the transaction
ExecuteProposal(sender, proposalId, giftOk) ==
  /\ IF ~Executable(GetProposalState(proposalId))
       THEN Revert("Proposal not successful")
     ELSE IF ~giftOk
       THEN Revert("allocateDAOGift")
     ELSE /\ proposals' = [proposals EXCEPT ![proposalId].executed = TRUE]
          /\ allocated' = [allocated EXCEPT ![proposalId] = @ + 1]
          /\ UNCHANGED <<votingPeriod, votingDelay, quorumPercentage,
                         maxGiftAmount, proposalCount>>
  /\ UNCHANGED blockTimestamp
  /\ UNCHANGED offDao

Cancelable(state) == state = "Pending" \/ state = "Active"

CancelProposal(sender, proposalId) ==
  /\ IF ~HasRole("DEFAULT_ADMIN_ROLE", sender)
       THEN Revert("AccessControl")
     ELSE IF ~Cancelable(GetProposalState(proposalId))
       THEN Revert("Cannot cancel proposal")
     ELSE /\ proposals' = [proposals EXCEPT ![proposalId].canceled = TRUE]
          /\ UNCHANGED <<votingPeriod, votingDelay, quorumPercentage,
                         maxGiftAmount, proposalCount, allocated>>
  /\ UNCHANGED blockTimestamp
  /\ UNCHANGED offDao

\* arguments of updateVotingParameters: the values the contract starts with,
\* a shorter schedule with a lower quorum, and a quorum above 100
Parameters ==
  { [votingPeriod |-> SevenDays, votingDelay |-> OneDay,
     quorumPercentage |-> InitialQuorumPercentage,
     maxGiftAmount |-> InitialMaxGiftAmount],
    [votingPeriod |-> 2, votingDelay |-> 0,
     quorumPercentage |-> 2, maxGiftAmount |-> InitialMaxGiftAmount],
    [votingPeriod |-> SevenDays, votingDelay |-> OneDay,
     quorumPercentage |-> 101, maxGiftAmount |-> InitialMaxGiftAmount] }

UpdateVotingParameters(sender, p) ==
  /\ IF ~HasRole("DEFAULT_ADMIN_ROLE", sender)
       THEN Revert("AccessControl")
     ELSE IF ~(p.quorumPercentage <= 100)
       THEN Revert("Quorum percentage too high")
     ELSE /\ votingPeriod' = p.votingPeriod
          /\ votingDelay' = p.votingDelay
          /\ quorumPercentage' = p.quorumPercentage
          /\ maxGiftAmount' = p.maxGiftAmount
          /\ UNCHANGED <<proposalCount, proposals, allocated>>
  /\ UNCHANGED blockTimestamp
  /\ UNCHANGED offDao

\* a later block: block.timestamp has grown
AdvanceTime ==
  /\ blockTimestamp < MaxTime
  /\ blockTimestamp' = blockTimestamp + 1
  /\ UNCHANGED storageVars
  /\ UNCHANGED offDao

\* ---------------------------------------------------------------- ReserveTrust
MaxBatch == 2   \* length of the arrays given to a call

\* a transaction that reverts with the given reason changes nothing of the
\* contract
TrustRevert(reason) == UNCHANGED trustVars

NotLockedEver(locked, actor) == TRUE

\* the condition of the modifier notLocked, and of line 143
NotLocked(locked, actor) == ~locked[actor]

GiftAmounts == {40000, 100000, 200000}

\* allocateDAOGift; compliant is what complianceGuard.checkCompliance returns
AllocateDAOGift(sender, recipient, amount, compliant) ==
  /\ IF ~IsOwner(sender) THEN TrustRevert("OwnableUnauthorizedAccount")
     ELSE IF ~NotLocked(lockedActors, recipient) THEN TrustRevert("Actor is locked")
     ELSE IF ~compliant THEN TrustRevert("Non-compliant action")
     ELSE IF ~(amount <= daoTrust) THEN TrustRevert("Exceeds DAO Trust")
     ELSE /\ daoTrust' = daoTrust - amount
          /\ trustAllocations' = [trustAllocations EXCEPT ![recipient] = @ + amount]
          /\ UNCHANGED <<sovereignReserve, heirReserve, lockedActors>>
  /\ UNCHANGED offTrust

\* allocatePersonalGift
AllocatePersonalGift(sender, recipient, amount, compliant) ==
  /\ IF ~IsOwner(sender) THEN TrustRevert("OwnableUnauthorizedAccount")
     ELSE IF ~NotLocked(lockedActors, recipient) THEN TrustRevert("Actor is locked")
     ELSE IF ~compliant THEN TrustRevert("Non-compliant action")
     ELSE IF ~(amount <= sovereignReserve)
       THEN TrustRevert("Exceeds Sovereign Reserve")
     ELSE /\ sovereignReserve' = sovereignReserve - amount
          /\ trustAllocations' = [trustAllocations EXCEPT ![recipient] = @ + amount]
          /\ UNCHANGED <<daoTrust, heirReserve, lockedActors>>
  /\ UNCHANGED offTrust

\* the arrays a call may be given: the first one, an array that goes with it
\* (of its length, or empty), and the length of one whose entries are only
\* emitted (that of the first, or one more)
Lists(S) == UNION {[1..n -> S] : n \in 0..MaxBatch}
Alongside(S, first) == [1..Len(first) -> S] \cup {<<>>}
Lengths(first) == {Len(first), Len(first) + 1}

HeirAmounts == {40000, 100000}

\* the loop of lines 133-136, from index i with totalAmount so far
RECURSIVE TotalAmount(_, _, _)
TotalAmount(amounts, i, totalAmount) ==
  IF i < Len(amounts)
    THEN TotalAmount(amounts, i + 1, totalAmount + amounts[i + 1])
    ELSE totalAmount

\* the loop of lines 142-149, from index i with the allocations so far: the
\* reason it reverts with, "" if it does not, and the allocations it leaves
RECURSIVE HeirLoop(_, _, _, _, _, _)
HeirLoop(allocations, locked, heirs, amounts, compliant, i) ==
  IF ~(i < Len(heirs)) THEN [reverted |-> "", allocations |-> allocations]
  ELSE IF ~NotLocked(locked, heirs[i + 1])
    THEN [reverted |-> "Heir is locked", allocations |-> allocations]
  ELSE IF ~compliant[i + 1]
    THEN [reverted |-> "Non-compliant heir allocation",
          allocations |-> allocations]
  ELSE HeirLoop([allocations EXCEPT ![heirs[i + 1]] = @ + amounts[i + 1]],
                locked, heirs, amounts, compliant, i + 1)

\* allocateHeirReserve; names stands for its length, compliant[i] is what
\* complianceGuard.checkCompliance returns for heirs[i] and amounts[i]
AllocateHeirReserve(sender, heirs, amounts, names, compliant) ==
  /\ IF ~IsOwner(sender) THEN TrustRevert("OwnableUnauthorizedAccount")
     ELSE IF ~(Len(heirs) = Len(amounts) /\ Len(heirs) = names)
       THEN TrustRevert("Array length mismatch")
     ELSE LET totalAmount == TotalAmount(amounts, 0, 0)
              loop == HeirLoop(trustAllocations, lockedActors, heirs, amounts,
                               compliant, 0)
          IN  IF ~(totalAmount <= heirReserve)
                THEN TrustRevert("Exceeds Heir Reserve")
              ELSE IF loop.reverted # "" THEN TrustRevert(loop.reverted)
              ELSE /\ heirReserve' = heirReserve - totalAmount
                   /\ trustAllocations' = loop.allocations
                   /\ UNCHANGED <<daoTrust, sovereignReserve, lockedActors>>
  /\ UNCHANGED offTrust

LockActorBurn(t, actor) ==
  [locked |-> [t.locked EXCEPT ![actor] = TRUE],
   allocations |-> [t.allocations EXCEPT ![actor] = 0],
   sovereign |-> t.sovereign]

\* one pass of the loop of lockNonHarmonicActors (lines 167-173) over the
\* two mappings and sovereignReserve
LockActor(t, actor) ==
  [locked |-> [t.locked EXCEPT ![actor] = TRUE],
   allocations |-> [t.allocations EXCEPT ![actor] = 0],
   sovereign |-> IF t.allocations[actor] > 0
                   THEN t.sovereign + t.allocations[actor]
                   ELSE t.sovereign]

RECURSIVE LockLoop(_, _, _)
LockLoop(t, actors, i) ==
  IF i < Len(actors) THEN LockLoop(LockActor(t, actors[i + 1]), actors, i + 1)
  ELSE t

\* lockNonHarmonicActors; reasons stands for its length
LockNonHarmonicActors(sender, actors, reasons) ==
  /\ IF ~IsOwner(sender) THEN TrustRevert("OwnableUnauthorizedAccount")
     ELSE IF ~(Len(actors) = reasons) THEN TrustRevert("Array length mismatch")
     ELSE LET t == LockLoop([locked |-> lockedActors,
                             allocations |-> trustAllocations,
                             sovereign |-> sovereignReserve], actors, 0)
          IN  /\ lockedActors' = t.locked
              /\ trustAllocations' = t.allocations
              /\ sovereignReserve' = t.sovereign
              /\ UNCHANGED <<daoTrust, heirReserve>>
  /\ UNCHANGED offTrust

RECURSIVE UnlockLoop(_, _, _)
UnlockLoop(locked, actors, i) ==
  IF i < Len(actors)
    THEN UnlockLoop([locked EXCEPT ![actors[i + 1]] = FALSE], actors, i + 1)
    ELSE locked

\* unlockActors
UnlockActors(sender, actors) ==
  /\ IF ~IsOwner(sender) THEN TrustRevert("OwnableUnauthorizedAccount")
     ELSE /\ lockedActors' = UnlockLoop(lockedActors, actors, 0)
          /\ UNCHANGED <<daoTrust, sovereignReserve, heirReserve,
                         trustAllocations>>
  /\ UNCHANGED offTrust

\* what a view function does: it returns a value or reverts
Value(value) == [status |-> "returned", value |-> value]
Panic(code) == [status |-> "reverted", value |-> code]

\* a - b in uint256 under Solidity 0.8: checked, an underflow reverts
CheckedSub(a, b) ==
  IF a.status = "reverted" THEN a
  ELSE IF a.value < b THEN Panic("0x11")
  ELSE Value(a.value - b)

\* getTotalAllocated: TOTAL_VALUE - daoTrust - sovereignReserve
getTotalAllocated ==
  CheckedSub(CheckedSub(Value(TOTAL_VALUE), daoTrust), sovereignReserve)

\* ---------------------------------------------------------------- ComplianceGuard
\* a transaction that reverts with the given reason changes nothing of the
\* contract
GuardRevert(reason) == UNCHANGED guardVars

CheckComplianceVerifiedFirst(entity, amount) ==
  IF verifiedEntities[entity] /\ complianceScores[entity] >= complianceThreshold
    THEN TRUE
  ELSE IF blacklistedEntities[entity] THEN FALSE
  ELSE IF ~verifiedEntities[entity] /\ amount < 100 THEN TRUE
  ELSE FALSE

checkCompliance(entity, amount) ==
  IF blacklistedEntities[entity] THEN FALSE
  ELSE IF verifiedEntities[entity]
          /\ complianceScores[entity] >= complianceThreshold THEN TRUE
  ELSE IF ~verifiedEntities[entity] /\ amount < 100 THEN TRUE
  ELSE FALSE

\* addressToString: the text "0x" and the forty hex digits of the address
addressToString(addr) == [hex |-> addr]

\* parseAddr: address(0), whatever the bytes
parseAddr(bytes) == "0x0"

\* requestComplianceVerification; the request id is the next of the client's
\* counter, and linkOk is whether the transfer of the fee to the oracle went
\* through
RequestComplianceVerification(sender, entity, linkOk) ==
  /\ requestCount < MaxRequests
  /\ IF ~IsOwner(sender) THEN GuardRevert("OwnableUnauthorizedAccount")
     ELSE IF ~linkOk THEN GuardRevert("unable to transferAndCall to oracle")
     ELSE /\ requestCount' = requestCount + 1
          /\ requests' = [requests EXCEPT ![requestCount + 1] =
               [address |-> addressToString(entity), status |-> "pending",
                score |-> 0]]
          /\ UNCHANGED <<complianceThreshold, verifiedEntities,
                         complianceScores, blacklistedEntities>>
  /\ UNCHANGED offGuard

\* the senders of a fulfilment: the oracle the requests are sent to, or not
Fulfillers == {"oracle", "stranger"}

Scores == {74, 75, 101}

\* fulfillComplianceVerification, under recordChainlinkFulfillment: the sender
\* must be the oracle of a pending request, which is pending no longer
FulfillComplianceVerification(sender, requestId, score) ==
  /\ IF ~(requests[requestId].status = "pending" /\ sender = "oracle")
       THEN GuardRevert("Source must be the oracle of the request")
     ELSE LET entity == parseAddr(requests[requestId].address)
          IN  /\ complianceScores' = [complianceScores EXCEPT ![entity] = score]
              /\ verifiedEntities' = [verifiedEntities EXCEPT ![entity] = TRUE]
              /\ requests' = [requests EXCEPT ![requestId] =
                   [@ EXCEPT !.status = "fulfilled", !.score = score]]
              /\ UNCHANGED <<complianceThreshold, blacklistedEntities,
                             requestCount>>
  /\ UNCHANGED offGuard

\* blacklistEntity
BlacklistEntity(sender, entity) ==
  /\ IF ~IsOwner(sender) THEN GuardRevert("OwnableUnauthorizedAccount")
     ELSE /\ blacklistedEntities' = [blacklistedEntities EXCEPT ![entity] = TRUE]
          /\ UNCHANGED <<complianceThreshold, verifiedEntities,
                         complianceScores, requestCount, requests>>
  /\ UNCHANGED offGuard

\* whitelistEntity
WhitelistEntity(sender, entity) ==
  /\ IF ~IsOwner(sender) THEN GuardRevert("OwnableUnauthorizedAccount")
     ELSE /\ blacklistedEntities' = [blacklistedEntities EXCEPT ![entity] = FALSE]
          /\ UNCHANGED <<complianceThreshold, verifiedEntities,
                         complianceScores, requestCount, requests>>
  /\ UNCHANGED offGuard

Thresholds == {74, 101}

\* setComplianceThreshold
SetComplianceThreshold(sender, threshold) ==
  /\ IF ~IsOwner(sender) THEN GuardRevert("OwnableUnauthorizedAccount")
     ELSE IF ~(threshold <= 100) THEN GuardRevert("Threshold must be <= 100")
     ELSE /\ complianceThreshold' = threshold
          /\ UNCHANGED <<verifiedEntities, complianceScores,
                         blacklistedEntities, requestCount, requests>>
  /\ UNCHANGED offGuard

\* setComplianceScore
SetComplianceScore(sender, entity, score) ==
  /\ IF ~IsOwner(sender) THEN GuardRevert("OwnableUnauthorizedAccount")
     ELSE IF ~(score <= 100) THEN GuardRevert("Score must be <= 100")
     ELSE /\ complianceScores' = [complianceScores EXCEPT ![entity] = score]
          /\ verifiedEntities' = [verifiedEntities EXCEPT ![entity] = TRUE]
          /\ UNCHANGED <<complianceThreshold, blacklistedEntities,
                         requestCount, requests>>
  /\ UNCHANGED offGuard

\* ---------------------------------------------------------------- SpiralCanon
\* Each function awaits logQCHAIN as the last thing it does before it returns:
\* logOk is whether that call resolved. What the call appends to the log is the
\* subject of Spec; of the canons nothing changes after it. Timestamps are left
\* out of the objects.

\* the canonNumber arguments: a core canon, another number, and a falsy one
NumberArgs == {"XLV", "C", ""}
Declarations == {"d", ""}
Witnesses == {"Dinah"}

Settle(call, canonNumber, error) == outcome' = [call |-> call, error |-> error]

\* this.canons.has(canonNumber)
Has(canonNumber) == canonNumber \in CanonNumbers /\ canons[canonNumber] # 0

\* the reference of the next object created
Fresh == 1 + Cardinality({r \in References : objects[r] # NoCanon})

\* declareCanon
DeclareCanon(canonNumber, declaration, logOk) ==
  /\ (canonNumber # "" /\ declaration # "") => Fresh \in References
  /\ IF canonNumber = "" \/ declaration = ""
       THEN /\ Settle("declareCanon", canonNumber,
                      "Canon number and declaration are required")
            /\ UNCHANGED <<canons, objects>>
       ELSE /\ objects' = [objects EXCEPT ![Fresh] =
                 [number |-> canonNumber, declaration |-> declaration,
                  witnessed |-> FALSE, witnessedBy |-> "null",
                  sealed |-> FALSE, signature |-> NoSeal]]
            /\ canons' = [canons EXCEPT ![canonNumber] = Fresh]
            /\ Settle("declareCanon", canonNumber,
                      IF logOk THEN "" ELSE "logQCHAIN")
  /\ UNCHANGED <<sealPc, sealing>>
  /\ UNCHANGED offCanon

\* witnessCanon
WitnessCanon(canonNumber, witness, logOk) ==
  /\ IF ~Has(canonNumber)
       THEN /\ Settle("witnessCanon", canonNumber, "not found")
            /\ UNCHANGED <<canons, objects>>
       ELSE LET canon == canons[canonNumber]
            IN  /\ objects' = [objects EXCEPT ![canon] =
                     [@ EXCEPT !.witnessed = TRUE, !.witnessedBy = witness]]
                /\ canons' = [canons EXCEPT ![canonNumber] = canon]
                /\ Settle("witnessCanon", canonNumber,
                          IF logOk THEN "" ELSE "logQCHAIN")
  /\ UNCHANGED <<sealPc, sealing>>
  /\ UNCHANGED offCanon

UnwitnessedNever(canon) == FALSE

\* !canon.witnessed
Unwitnessed(canon) == ~canon.witnessed

\* sealCanon, to the await of _createQuantumSignature: the const canon refers
\* to the object in the Map now, and JSON.stringify(canon) is taken now
SealCanonStart(canonNumber) ==
  /\ sealPc = "idle"
  /\ IF ~Has(canonNumber)
       THEN /\ Settle("sealCanon", canonNumber, "not found")
            /\ UNCHANGED <<sealPc, sealing>>
     ELSE IF Unwitnessed(objects[canons[canonNumber]])
       THEN /\ Settle("sealCanon", canonNumber,
                      "must be witnessed before sealing")
            /\ UNCHANGED <<sealPc, sealing>>
     ELSE /\ sealPc' = "signing"
          /\ sealing' = [canonNumber |-> canonNumber,
                         canon |-> canons[canonNumber],
                         canonString |-> objects[canons[canonNumber]]]
          /\ UNCHANGED outcome
  /\ UNCHANGED <<canons, objects>>
  /\ UNCHANGED offCanon

\* the signature: the digest of the string taken of the canon
CanonSignature(canonString) ==
  [hash |-> <<canonString.number, canonString.declaration,
              canonString.witnessedBy>>]

\* sealCanon, from the signature on; signOk is whether the digest resolved
SealCanonFinish(signOk, logOk) ==
  /\ sealPc = "signing"
  /\ IF ~signOk
       THEN /\ Settle("sealCanon", sealing.canonNumber, "digest")
            /\ UNCHANGED <<canons, objects>>
       ELSE /\ objects' = [objects EXCEPT ![sealing.canon] =
                 [@ EXCEPT !.sealed = TRUE,
                           !.signature = CanonSignature(sealing.canonString)]]
            /\ canons' = [canons EXCEPT ![sealing.canonNumber] = sealing.canon]
            /\ Settle("sealCanon", sealing.canonNumber,
                      IF logOk THEN "" ELSE "logQCHAIN")
  /\ sealPc' = "idle"
  /\ sealing' = NoSealing
  /\ UNCHANGED offCanon

\* ---------------------------------------------------------------- specification
Next ==
  \/ \E c \in Awaited, d \in Inputs, t \in Clock(now) : LogStart(c, d, t)
  \/ \E c \in Awaited, storageOk \in BOOLEAN : LogPersist(c, storageOk)
  \/ \E c \in Awaited, sent \in BOOLEAN : LogTransmitted(c, sent)
  \/ ClearQCHAINLogs
  \/ \E p \in Serial : SyncStart(p)
  \/ \E p \in Serial : SyncMerge(p)
  \/ \E b \in BOOLEAN : SetOnLine(b)

Spec == Init /\ [][Next]_vars

\* Spec with what the runtime guarantees: the digest awaited at line 38 and
\* the timer awaited at Iyonael.js:534 complete. The link awaited at line 46
\* carries no such guarantee: a transmission may never settle.
DigestSettles == \E c \in Awaited, storageOk \in BOOLEAN : LogPersist(c, storageOk)
TimerFires == \E p \in Serial : SyncMerge(p)
LiveSpec == Spec /\ WF_vars(DigestSettles) /\ WF_vars(TimerFires)

\* a caller that logs and verifies what it logged
VerifyNext ==
  \/ \E c \in Awaited, d \in Inputs, t \in Clock(now) : LogStart(c, d, t)
  \/ \E c \in Awaited, storageOk \in BOOLEAN : LogPersist(c, storageOk)
  \/ \E c \in Awaited, sent \in BOOLEAN : LogTransmitted(c, sent)
  \/ \E d \in VerifyData, sig \in SignatureArgs : VerifyQCHAINSignature(d, sig)

VerifySpec == Init /\ [][VerifyNext]_vars

\* a caller that logs records of every shape, some under the same txId
AppendNext ==
  \/ \E c \in Awaited, d \in MetricsInputs, t \in Clock(now) : LogStart(c, d, t)
  \/ \E c \in Awaited, storageOk \in BOOLEAN : LogPersist(c, storageOk)
  \/ \E c \in Awaited, sent \in BOOLEAN : LogTransmitted(c, sent)
  \/ \E b \in BOOLEAN : SetOnLine(b)

AppendSpec == Init /\ [][AppendNext]_vars

\* callers that do not await one another (Promise.all over logQCHAIN calls)
ConcurrentNext ==
  \/ \E c \in Calls, d \in Inputs, t \in Clock(now) : LogStart(c, d, t)
  \/ \E c \in Calls, storageOk \in BOOLEAN : LogPersist(c, storageOk)
  \/ \E c \in Calls, sent \in BOOLEAN : LogTransmitted(c, sent)
  \/ \E b \in BOOLEAN : SetOnLine(b)

ConcurrentSpec == Init /\ [][ConcurrentNext]_vars

\* sync passes called without awaiting one another
DrainNext ==
  \/ \E c \in Awaited, d \in ValidInputs, t \in Clock(now) : LogStart(c, d, t)
  \/ \E c \in Awaited, storageOk \in BOOLEAN : LogPersist(c, storageOk)
  \/ \E c \in Awaited, sent \in BOOLEAN : LogTransmitted(c, sent)
  \/ \E p \in Passes : SyncStart(p)
  \/ \E p \in Passes : SyncMerge(p)

DrainSpec == Init /\ [][DrainNext]_vars

\* the contract alone, every function called by anyone in any block
DaoNext ==
  \/ \E s \in Senders, r \in Recipients, a \in Amounts, u \in Purposes,
        compliant \in BOOLEAN : CreateProposal(s, r, a, u, compliant)
  \/ \E s \in Senders, id \in ProposalIds, support \in BOOLEAN,
        a \in VoteAmounts : CastVote(s, id, support, a)
  \/ \E s \in Senders, id \in ProposalIds, giftOk \in BOOLEAN :
        ExecuteProposal(s, id, giftOk)
  \/ \E s \in Senders, id \in ProposalIds : CancelProposal(s, id)
  \/ \E s \in Senders, p \in Parameters : UpdateVotingParameters(s, p)
  \/ AdvanceTime

\* navigator.onLine is nothing the contract reads
DaoInit == Init /\ onLine = TRUE

DaoSpec == DaoInit /\ [][DaoNext]_vars

\* ReserveTrust alone, every function called by anyone
TrustNext ==
  \/ \E s \in Senders, r \in Actors, a \in GiftAmounts, compliant \in BOOLEAN :
       AllocateDAOGift(s, r, a, compliant)
  \/ \E s \in Senders, r \in Actors, a \in GiftAmounts, compliant \in BOOLEAN :
       AllocatePersonalGift(s, r, a, compliant)
  \/ \E s \in Senders, heirs \in Lists(Actors) :
       \E amounts \in Alongside(HeirAmounts, heirs), names \in Lengths(heirs),
          compliant \in [1..Len(heirs) -> BOOLEAN] :
         AllocateHeirReserve(s, heirs, amounts, names, compliant)
  \/ \E s \in Senders, actors \in Lists(Actors) :
       \E reasons \in Lengths(actors) :
         LockNonHarmonicActors(s, actors, reasons)
  \/ \E s \in Senders, actors \in Lists(Actors) : UnlockActors(s, actors)

TrustSpec == DaoInit /\ [][TrustNext]_vars

\* ComplianceGuard alone, every function called by anyone; the oracle stays
\* the one of the constructor
GuardNext ==
  \/ \E s \in Senders, e \in Entities, linkOk \in BOOLEAN :
       RequestComplianceVerification(s, e, linkOk)
  \/ \E s \in Fulfillers, id \in RequestIds, score \in Scores :
       FulfillComplianceVerification(s, id, score)
  \/ \E s \in Senders, e \in Entities : BlacklistEntity(s, e)
  \/ \E s \in Senders, e \in Entities : WhitelistEntity(s, e)
  \/ \E s \in Senders, t \in Thresholds : SetComplianceThreshold(s, t)
  \/ \E s \in Senders, e \in Entities, score \in Scores :
       SetComplianceScore(s, e, score)

GuardSpec == DaoInit /\ [][GuardNext]_vars

\* one SpiralCanon, its functions called in any order, also while a sealCanon
\* awaits its signature
CanonNext ==
  \/ \E n \in NumberArgs, d \in Declarations, logOk \in BOOLEAN :
       DeclareCanon(n, d, logOk)
  \/ \E n \in NumberArgs, w \in Witnesses, logOk \in BOOLEAN :
       WitnessCanon(n, w, logOk)
  \/ \E n \in NumberArgs : SealCanonStart(n)
  \/ \E signOk \in BOOLEAN, logOk \in BOOLEAN : SealCanonFinish(signOk, logOk)

CanonSpec == DaoInit /\ [][CanonNext]_vars

\* ---------------------------------------------------------------- SpiralClock
\* the dates and times of day the test's clock is read at
EthiopianYears == {2017, 2018}
DaysSinceNewYear == 0..365
Hours == {0, 16}
Minutes == {51}
Seconds == {0}

\* _calculateCurrentSpiralTime, from daysSinceEthiopianNewYear on
CalculateCurrentSpiralTime(year, days, hours, minutes, seconds) ==
  LET month == (days \div 30) + 1
      day == (days % 30) + 1
  IN  IF month > 13
        THEN SpiralTime(year, 13, days - 12 * 30 + 1, hours, minutes, seconds)
        ELSE SpiralTime(year, month, day, hours, minutes, seconds)

\* a string is the sequence of its characters, each named by a string
Digit == <<"0", "1", "2", "3", "4", "5", "6", "7", "8", "9">>
Digits == {Digit[i] : i \in 1..10}

\* Number.prototype.toString of a non-negative integer, by its digits
RECURSIVE NumberToString(_)
NumberToString(n) ==
  IF n < 10 THEN <<Digit[n + 1]>>
  ELSE NumberToString(n \div 10) \o <<Digit[(n % 10) + 1]>>

\* String.prototype.padStart
RECURSIVE PadStart(_, _, _)
PadStart(string, width, char) ==
  IF Len(string) >= width THEN string
  ELSE PadStart(<<char>> \o string, width, char)

\* parseInt(string, 10) of a run of digits
RECURSIVE ParseInt(_)
ParseInt(string) ==
  IF string = <<>> THEN 0
  ELSE 10 * ParseInt(SubSeq(string, 1, Len(string) - 1))
       + (CHOOSE d \in 0..9 : Digit[d + 1] = string[Len(string)])

FormatSpiralTime(t) ==
  LET year == NumberToString(t.ethiopian.year)
      dayOfYear == (t.ethiopian.month - 1) * 30 + t.ethiopian.day
      hours == PadStart(NumberToString(t.gregorian.hours), 2, "0")
      minutes == PadStart(NumberToString(t.gregorian.minutes), 2, "0")
      seconds == PadStart(NumberToString(t.gregorian.seconds), 2, "0")
  IN  <<"phi">> \o year \o <<".">> \o PadStart(NumberToString(dayOfYear), 3, "0")
      \o <<".", "Delta">> \o hours \o <<":">> \o minutes \o <<":">> \o seconds
      \o <<"Z">>

\* the regular expression of parseSpiralTime; "d+" is a group of digits
Regex == <<"phi", "d+", ".", "d+", ".", "Delta", "d+", ":", "d+", ":", "d+", "Z">>

\* the length of the longest run of digits of string from position i
RECURSIVE DigitsFrom(_, _)
DigitsFrom(string, i) ==
  IF i <= Len(string) /\ string[i] \in Digits
    THEN 1 + DigitsFrom(string, i + 1)
    ELSE 0

\* the groups of a match of Regex from its p-th part on at position i of
\* string, <<>> if there is none; a group takes every digit there is, since no
\* part after a group starts with a digit
RECURSIVE MatchAt(_, _, _, _)
MatchAt(string, i, p, groups) ==
  IF p > Len(Regex) THEN groups
  ELSE IF Regex[p] = "d+"
    THEN LET k == DigitsFrom(string, i)
         IN  IF k = 0 THEN <<>>
             ELSE MatchAt(string, i + k, p + 1,
                          Append(groups, SubSeq(string, i, i + k - 1)))
  ELSE IF i <= Len(string) /\ string[i] = Regex[p]
    THEN MatchAt(string, i + 1, p + 1, groups)
  ELSE <<>>

\* String.prototype.match: the groups of the first match, <<>> for null
Match(string) ==
  LET starts == {i \in 1..Len(string) : MatchAt(string, i, 1, <<>>) # <<>>}
  IN  IF starts = {} THEN <<>>
      ELSE MatchAt(string, CHOOSE i \in starts : \A j \in starts : i <= j,
                   1, <<>>)

ParseSpiralTime(timeString) ==
  LET match == Match(timeString)
      ethiopianYear == ParseInt(match[1])
      dayOfYear == ParseInt(match[2])
      hours == ParseInt(match[3])
      minutes == ParseInt(match[4])
      seconds == ParseInt(match[5])
      ethiopianMonth == (dayOfYear \div 30) + 1
      ethiopianDay == IF dayOfYear % 30 = 0 THEN 30 ELSE dayOfYear % 30
  IN  IF match = <<>> THEN Throws("Invalid Spiral Time format")
      ELSE Returns(SpiralTime(ethiopianYear, ethiopianMonth, ethiopianDay,
                              hours, minutes, seconds))

\* const currentTime = clock.getCurrentTime()
GetCurrentTime(year, days, hours, minutes, seconds) ==
  /\ clockPc \in {"idle", "parsed"}
  /\ currentTime' =
       CalculateCurrentSpiralTime(year, days, hours, minutes, seconds)
  /\ formattedTime' = <<>>
  /\ parsedTime' = Returns(NoTime)
  /\ clockPc' = "current"
  /\ UNCHANGED offClock

\* const formattedTime = clock.formatSpiralTime(currentTime)
FormatTime ==
  /\ clockPc = "current"
  /\ formattedTime' = FormatSpiralTime(currentTime)
  /\ clockPc' = "formatted"
  /\ UNCHANGED <<currentTime, parsedTime, offClock>>

\* const parsedTime = clock.parseSpiralTime(formattedTime)
ParseTime ==
  /\ clockPc = "formatted"
  /\ parsedTime' = ParseSpiralTime(formattedTime)
  /\ clockPc' = "parsed"
  /\ UNCHANGED <<currentTime, formattedTime, offClock>>

\* the passes of the test's loop, one after the other
ClockNext ==
  \/ \E year \in EthiopianYears, days \in DaysSinceNewYear, hours \in Hours,
        minutes \in Minutes, seconds \in Seconds :
       GetCurrentTime(year, days, hours, minutes, seconds)
  \/ FormatTime
  \/ ParseTime

ClockSpec == DaoInit /\ [][ClockNext]_vars

ClockTypeOK ==
  /\ clockPc \in {"idle", "current", "formatted", "parsed"}
  /\ currentTime.ethiopian.month \in 0..13
  /\ currentTime.ethiopian.day \in 0..30
  /\ currentTime.ethiopian.month = 13 => currentTime.ethiopian.day \in 1..6
  /\ clockPc \in {"formatted", "parsed"} =>
       /\ Len(formattedTime) = 20
       /\ Match(formattedTime) # <<>>
  /\ parsedTime.error = ""

CanonTypeOK ==
  /\ canons \in [CanonNumbers -> References \cup {0}]
  /\ DOMAIN objects = References
  /\ sealPc \in {"idle", "signing"}
  /\ sealPc = "idle" <=> sealing = NoSealing
  /\ \A n \in CanonNumbers : canons[n] # 0 => objects[canons[n]].number = n

GuardTypeOK ==
  /\ complianceThreshold \in 0..100
  /\ verifiedEntities \in [Entities -> BOOLEAN]
  /\ complianceScores \in [Entities -> Nat]
  /\ blacklistedEntities \in [Entities -> BOOLEAN]
  /\ requestCount \in 0..MaxRequests
  /\ \A id \in RequestIds :
       requests[id].status \in {"none", "pending", "fulfilled"}

TrustTypeOK ==
  /\ daoTrust \in Nat /\ sovereignReserve \in Nat /\ heirReserve \in Nat
  /\ trustAllocations \in [Actors -> Nat]
  /\ lockedActors \in [Actors -> BOOLEAN]

DaoTypeOK ==
  /\ blockTimestamp \in 1..MaxTime
  /\ votingPeriod \in Nat /\ votingDelay \in Nat
  /\ quorumPercentage \in 0..100
  /\ maxGiftAmount \in Nat
  /\ proposalCount \in ProposalIds
  /\ DOMAIN proposals = ProposalIds
  /\ \A id \in ProposalIds :
       /\ proposals[id].forVotes + proposals[id].againstVotes <= MaxTally
       /\ proposals[id].executed \in BOOLEAN
       /\ proposals[id].canceled \in BOOLEAN
       /\ id >= proposalCount => proposals[id] = ZeroProposal
       /\ allocated[id] \in Nat

\* ---------------------------------------------------------------- model invariants
TypeOK ==
  /\ onLine \in BOOLEAN
  /\ now \in 1..MaxClock
  /\ Len(persisted) \in 0..MaxAppends
  /\ transmitted \subseteq 1..Len(persisted)
  /\ queuedOffline \subseteq 1..Len(persisted)
  /\ cleared \in 0..Len(persisted)
  /\ \A c \in Calls : pc[c] \in {"idle", "signing", "transmitting"}
  /\ \A p \in Passes : syncPc[p] \in {"idle", "merging", "done"}

\* the store is what was persisted since the last clearQCHAINLogs
StoreIsHistory ==
  /\ Len(store) = Len(persisted) - cleared
  /\ \A i \in 1..Len(store) : store[i] = persisted[cleared + i]

\* ---------------------------------------------------------------- vocabulary
Range(seq) == {seq[k] : k \in 1..Len(seq)}
HasEffect(effects, e) == e \in Range(effects)
Places == 1..Len(persisted)

\* the record stored i-th is in what getQCHAINLogs returns, at its place
Listed(i) ==
  /\ i > cleared
  /\ i - cleared <= Len(GetQCHAINLogs)
  /\ GetQCHAINLogs[i - cleared] = persisted[i]

\* the call that stored the record i-th has returned
Returned(i) == \A c \in Calls : idx[c] # i

\* the records stored and not cleared that the sink has not taken, in order
PendingRecords ==
  LET places == SelectSeq([i \in 1..Len(persisted) |-> i],
                          LAMBDA i : i > cleared /\ i \notin transmitted)
  IN  [k \in 1..Len(places) |-> persisted[places[k]]]

\* a data object the validation of logQCHAIN must reject
MissingField(d) ==
  \/ "event" \notin DOMAIN d \/ d.event = ""
  \/ "txId" \notin DOMAIN d \/ d.txId = ""

\* ---------------------------------------------------------------- C1
\* C1 as stated: every record whose logQCHAIN call has returned successfully
\* is in getQCHAINLogs() or has been transmitted, never absent from both.
C1_DurableEver ==
  \A i \in Places : Returned(i) => Listed(i) \/ i \in transmitted

\* C1 amended: every record whose logQCHAIN call has returned successfully is
\* in getQCHAINLogs() or has been transmitted, unless clearQCHAINLogs has run
\* since the record was stored.
C1_DurableUntilCleared ==
  \A i \in Places : Returned(i) /\ i > cleared => Listed(i) \/ i \in transmitted

\* two calls have returned, one made offline and one whose record was sent,
\* and both records are listed
C1_Witness ==
  /\ settled.result.status = "logged"
  /\ Len(persisted) = 2 /\ Returned(1) /\ Returned(2)
  /\ Listed(1) /\ Listed(2)
  /\ 1 \in queuedOffline /\ 2 \in transmitted

C3_NothingInvalidKept ==
  /\ \A c \in Calls : pc[c] # "idle" => ~MissingField(data[c])
  /\ \A i \in Places : ~MissingField(persisted[i])
  /\ \A k \in 1..Len(GetQCHAINLogs) : ~MissingField(GetQCHAINLogs[k])
  /\ settled.result = Thrown("ValidationError")
       => /\ MissingField(settled.rejected)
          /\ settled.trail = <<"throw">>
          /\ settled.place = 0
  /\ settled.result # Thrown("ValidationError") => settled.rejected = NoData

C3_RejectionStep ==
  (settled' # settled /\ settled'.result = Thrown("ValidationError"))
    => /\ GetQCHAINLogs' = GetQCHAINLogs
       /\ persisted' = persisted
       /\ transmitted' = transmitted
       /\ pc' = pc

\* C3: logQCHAIN called with event or txId missing or empty throws, and it
\* throws before any persistence: the store is unchanged, nothing is sent and
\* no record without the two fields is ever stored or in flight.
C3_Validation == []C3_NothingInvalidKept /\ [][C3_RejectionStep]_vars

\* a call without txId was rejected while a record was already stored
C3_Witness ==
  /\ settled.result = Thrown("ValidationError")
  /\ settled.rejected = [event |-> "ev"]
  /\ Len(GetQCHAINLogs) = 1

\* ---------------------------------------------------------------- C4
\* C4: in every logQCHAIN call on a valid record the record is written to the
\* store whatever the connectivity, and the write comes before the
\* transmission of the record is attempted.
C4_StoreThenForward ==
  /\ \A effects \in {trail[c] : c \in Calls} \cup {settled.trail} :
       \A k \in 1..Len(effects) :
         effects[k] = "send" => \E j \in 1..(k - 1) : effects[j] = "store"
  /\ \A c \in Calls :
       pc[c] = "transmitting"
         => idx[c] \in Places /\ persisted[idx[c]] = Record(data[c], signature[c])
  /\ settled.result.status = "logged"
       => /\ HasEffect(settled.trail, "store")
          /\ settled.place \in Places
          /\ persisted[settled.place].txId = settled.result.txId

\* a record stored offline and a record stored online and then sent
C4_Witness ==
  /\ settled.trail = <<"store", "send", "ack", "return">>
  /\ settled.place = 2
  /\ 1 \in queuedOffline

\* ---------------------------------------------------------------- C5
\* C5: when the send of logQCHAIN fails, the call still returns its
\* confirmation {status, txId, signature} and the record stays in the store
\* (until clearQCHAINLogs), not transmitted.
C5_TransmissionFailureAbsorbed ==
  HasEffect(settled.trail, "sendfail")
    => /\ settled.result.status = "logged"
       /\ settled.place \in Places
       /\ settled.result.txId = persisted[settled.place].txId
       /\ settled.result.signature = persisted[settled.place].signature
       /\ settled.place \notin transmitted
       /\ settled.place > cleared => Listed(settled.place)

\* a send failed online and the record is listed
C5_Witness ==
  /\ settled.trail = <<"store", "send", "sendfail", "return">>
  /\ settled.result.status = "logged"
  /\ Listed(settled.place)

\* ---------------------------------------------------------------- C6
\* what the stretch of logQCHAIN after the signature does to call c while
\* navigator.onLine is false
C6_OfflineStep(c) ==
  (pc[c] = "signing" /\ pc'[c] # "signing" /\ ~onLine)
    => /\ pc'[c] = "idle"
       /\ ~HasEffect(settled'.trail, "send")
       /\ transmitted' = transmitted
       /\ \/ settled'.result = Thrown("PersistenceError")
          \/ \E i \in 1..MaxAppends :
               /\ i = Len(persisted) + 1
               /\ settled'.result.status = "logged"
               /\ settled'.place = i
               /\ Listed(i)'

\* C6: while navigator.onLine is false, logQCHAIN on a valid record makes no
\* transmission attempt and returns its confirmation with the record left in
\* the store; the only failure it can end in is that of the store itself.
C6_OfflineAppend == [][\A c \in Calls : C6_OfflineStep(c)]_vars

\* a call made offline has returned its confirmation, its record is listed
\* and nothing was sent
C6_Witness ==
  /\ ~onLine
  /\ settled.trail = <<"store", "return">>
  /\ settled.result.status = "logged"
  /\ settled.place \in queuedOffline
  /\ Listed(settled.place)
  /\ transmitted = {}

\* ---------------------------------------------------------------- C7
\* C7: when the write of storeLocalLog fails, logQCHAIN throws that error to
\* its caller: one attempt at the store, no transmission, no confirmation,
\* and no record stored.
C7_PersistenceFailureFatal ==
  /\ \A c \in Calls : ~HasEffect(trail[c], "storefail")
  /\ HasEffect(settled.trail, "storefail")
       => /\ settled.result = Thrown("PersistenceError")
          /\ settled.trail = <<"storefail", "throw">>
          /\ settled.place = 0
  /\ settled.result.status = "threw" => settled.place = 0

\* the store failed while online, nothing was stored and nothing was sent
C7_Witness ==
  /\ onLine
  /\ settled.result = Thrown("PersistenceError")
  /\ persisted = <<>>
  /\ transmitted = {}

\* ---------------------------------------------------------------- C8
\* C8 as stated: getQCHAINLogs() is exactly the stored records not yet
\* transmitted, in insertion order.
C8_ListsOnlyPending == GetQCHAINLogs = PendingRecords

DrainedOfflineQueue(p) ==
  /\ syncPc[p] = "done"
  /\ Len(queuedLogs[p]) > 0
  /\ queuedOffline = Places
  /\ cleared = 0
  /\ Len(queuedLogs[p]) = Len(persisted)
  /\ \A c \in Calls : pc[c] = "idle"

\* C10 as stated: after records are appended offline, connectivity returns
\* and a sync pass completes, getQCHAINLogs() returns no records.
C10_DrainEmptiesPending ==
  \A p \in Passes : DrainedOfflineQueue(p) => GetQCHAINLogs = <<>>

\* ---------------------------------------------------------------- C11
\* the pass p has finished, nothing was stored or cleared since it read the
\* store, and p is run again
SecondRun(p) ==
  /\ syncPc[p] = "done"
  /\ cleared = queuedFrom[p]
  /\ Len(persisted) = queuedFrom[p] + Len(queuedLogs[p])
  /\ SyncStart(p)

\* C11 as stated: a sync pass run a second time, with no record stored since
\* the first, has zero records to process.
C11_IdempotentDrain ==
  [][\A p \in Passes : SecondRun(p) => Len(queuedLogs'[p]) = 0]_vars

\* ---------------------------------------------------------------- C12
\* metrics.offlineOperations: the calls of the offline period that returned
OfflineOperations == Cardinality(queuedOffline)

\* the test of verifyDataIntegrity on the metrics of pass p
VerifyDataIntegrity(p) == syncedOperations[p] = OfflineOperations

\* a run of the offline test: the start record stored while online, every
\* later record stored while offline, then one pass over the whole store,
\* which has finished
OfflineTestRun(p) ==
  /\ syncPc[p] = "done"
  /\ Len(persisted) >= 2
  /\ queuedOffline = 2..Len(persisted)
  /\ cleared = 0 /\ queuedFrom[p] = 0
  /\ Len(queuedLogs[p]) = Len(persisted)
  /\ \A c \in Calls : pc[c] = "idle"

\* C12 as stated: in a run of the offline test the pass synchronizes as many
\* records as were stored during the offline period, so the integrity check
\* passes.
C12_IntegrityCheckPasses ==
  \A p \in Passes : OfflineTestRun(p) => VerifyDataIntegrity(p)

\* ---------------------------------------------------------------- C13
\* C13: verifyQCHAINSignature on the data object a confirmed logQCHAIN call
\* worked on and the signature the call returned resolves to true; and the
\* signature issued is the one recomputed from that content and the
\* timestamp embedded in it.
C13_GenuineVerifies ==
  /\ issued # NoIssue
       => \E t \in 1..MaxClock :
            /\ TimestampMatch(issued.signature) = {Decimal(t)}
            /\ issued.signature = CreateQuantumSignature(issued.data, t)
  /\ (verdict.result.status # "none"
        /\ verdict.data = verdict.issued.data
        /\ verdict.signature = verdict.issued.signature)
       => verdict.result = Resolved(TRUE)

\* a record logged without a timestamp was verified with its signature
C13_Witness ==
  /\ verdict.result = Resolved(TRUE)
  /\ verdict.data = verdict.issued.data
  /\ verdict.signature = verdict.issued.signature
  /\ verdict.data.txId = "t1"
  /\ verdict.data.timestamp = ISOString(1)

\* ---------------------------------------------------------------- C14
\* C14: verifyQCHAINSignature on a data object that differs from the one a
\* confirmed call signed (a value altered, a field added or removed), with
\* the signature that call returned, resolves to false.
C14_TamperDetected ==
  (verdict.result.status # "none"
     /\ verdict.signature = verdict.issued.signature
     /\ verdict.data # verdict.issued.data)
    => verdict.result = Resolved(FALSE)

\* a signed data object with a field added was verified against the
\* signature issued, and so was one with a field removed
C14_Witness ==
  /\ verdict.result = Resolved(FALSE)
  /\ verdict.signature = verdict.issued.signature
  /\ \/ verdict.data = With(verdict.issued.data, "extra", "x")
     \/ /\ "interplanetary" \notin DOMAIN verdict.data
        /\ With(verdict.data, "interplanetary", TRUE) = verdict.issued.data

\* ---------------------------------------------------------------- C15
\* a signature argument in which no timestamp can be found
Unparseable(sig) == "timestamp" \notin DOMAIN sig

\* C15 as stated: verifyQCHAINSignature called with a signature argument from
\* which no timestamp can be parsed (wrong format, empty, not a string)
\* resolves to false and never throws.
C15_FailsClosed ==
  (verdict.result.status # "none" /\ Unparseable(verdict.signature))
    => verdict.result = Resolved(FALSE)

\* ---------------------------------------------------------------- C16
\* the places in persisted of the records pass p takes as its queued logs
\* when it starts now
TakenAsQueued(p) == {cleared + k : k \in 1..Len(queuedLogs'[p])}

\* C16 as stated: transmitted is terminal: a record the sink has taken stays
\* transmitted, and no later sync pass takes it as a queued record to
\* synchronize again.
C16_TransmittedTerminal ==
  [][/\ transmitted \subseteq transmitted'
     /\ \A p \in Passes :
          SyncStart(p) => TakenAsQueued(p) \cap transmitted = {}]_vars

\* ---------------------------------------------------------------- C17
\* a stored record as logQCHAIN builds it from some valid input
Intact(r) ==
  \E d \in ValidInputs, t \in 1..MaxClock :
    r = Record(Defaults(d, t), CreateQuantumSignature(Defaults(d, t), t))

\* C17: once every logQCHAIN call has returned, overlapping calls included,
\* the store holds one record for every call that stored one, each intact and
\* in the order of the writes: no write of storeLocalLog is lost.
C17_AtomicAppend ==
  ((\A c \in Calls : pc[c] = "idle") /\ cleared = 0)
    => /\ Len(GetQCHAINLogs) = Len(persisted)
       /\ \A i \in Places :
            GetQCHAINLogs[i] = persisted[i] /\ Intact(GetQCHAINLogs[i])

\* two calls overlapped (the one that signed first stored second), both have
\* returned and both records are in the store
C17_Witness ==
  /\ \A c \in Calls : pc[c] = "idle"
  /\ settled.result.status = "logged"
  /\ Len(GetQCHAINLogs) = 2
  /\ GetQCHAINLogs[1].signature.timestamp = Decimal(2)
  /\ GetQCHAINLogs[2].signature.timestamp = Decimal(1)
  /\ GetQCHAINLogs[1].txId # GetQCHAINLogs[2].txId

\* ---------------------------------------------------------------- C18
\* the passes that are inside their loop over the queued logs
Draining == {p \in Passes : syncPc[p] = "merging"}

\* C18 as stated: at no time are two sync passes over the local queue in
\* progress together.
C18_DrainMutualExclusion == Cardinality(Draining) <= 1

C20_StartStep ==
  \A c \in Calls, d \in ValidInputs, t \in Clock(now) :
    LogStart(c, d, t)
      => data'[c].timestamp = IF "timestamp" \in DOMAIN d /\ d.timestamp # ""
                              THEN d.timestamp
                              ELSE ISOString(t)

\* the record a call stores has the timestamp the call works with, which does
\* not change while the call is in flight
C20_StoreStep ==
  \A c \in Calls :
    /\ (pc[c] # "idle" /\ pc'[c] # "idle")
         => data'[c].timestamp = data[c].timestamp
    /\ (pc[c] = "signing" /\ pc'[c] # "signing"
          /\ Len(GetQCHAINLogs') = Len(GetQCHAINLogs) + 1)
         => GetQCHAINLogs'[Len(GetQCHAINLogs')].timestamp = data[c].timestamp

\* no step changes the timestamp of a record that stays in the store
C20_KeptStep ==
  \A k \in 1..Len(GetQCHAINLogs) :
    k <= Len(GetQCHAINLogs')
      => GetQCHAINLogs'[k].timestamp = GetQCHAINLogs[k].timestamp

\* C20: logQCHAIN assigns a timestamp only when the caller gave none; a
\* timestamp the caller supplied is stored unchanged, and no later operation
\* modifies the timestamp of a stored record.
C20_TimestampAssignment ==
  [][C20_StartStep /\ C20_StoreStep /\ C20_KeptStep]_vars

\* a record with the caller's timestamp and a record with an assigned one
\* are in the store, and a sync pass has since gone over both
C20_Witness ==
  /\ Len(GetQCHAINLogs) = 2
  /\ GetQCHAINLogs[1].timestamp = "ts0"
  /\ GetQCHAINLogs[2].timestamp = ISOString(2)
  /\ \E p \in Passes : syncPc[p] = "done" /\ Len(processed[p]) = 2

\* ---------------------------------------------------------------- C21
\* the metrics of the caller's data object d, none counting as empty
SuppliedMetrics(d) == IF "metrics" \in DOMAIN d THEN d.metrics ELSE EmptyObject

\* the metrics logQCHAIN keeps for an input whose metrics are m: m itself, with
\* the entry compliance: '100%' added when m has no compliance of its own
KeptMetrics(m) ==
  IF "compliance" \in DOMAIN m /\ m.compliance # ""
  THEN m
  ELSE With(m, "compliance", "100%")

\* the record a call stores has the metrics the call works with
C21_StoreStep ==
  \A c \in Calls :
    (pc[c] = "signing" /\ pc'[c] # "signing"
       /\ Len(GetQCHAINLogs') = Len(GetQCHAINLogs) + 1)
      => GetQCHAINLogs'[Len(GetQCHAINLogs')].metrics = data[c].metrics

\* C21 as stated: the metrics stored are the caller's mapping exactly, and an
\* empty mapping when the caller supplied none.
C21_MetricsUntouched ==
  [][/\ \A c \in Calls, d \in MetricsInputs, t \in Clock(now) :
          LogStart(c, d, t) => data'[c].metrics = SuppliedMetrics(d)
     /\ C21_StoreStep]_vars

\* C21 amended: the metrics stored are the caller's mapping (an empty one when
\* the caller supplied none) with one entry added, compliance: '100%', unless
\* the mapping has a compliance entry of its own; every other key and value
\* is the caller's.
C21_MetricsPlusCompliance ==
  [][/\ \A c \in Calls, d \in MetricsInputs, t \in Clock(now) :
          LogStart(c, d, t) => data'[c].metrics = KeptMetrics(SuppliedMetrics(d))
     /\ C21_StoreStep]_vars

\* two records are stored: one logged with metrics lacking a compliance
\* entry, one with a compliance entry of the caller's
C21_Witness ==
  \E j, k \in 1..Len(GetQCHAINLogs) :
    /\ GetQCHAINLogs[j].metrics = [hour |-> "6", compliance |-> "100%"]
    /\ GetQCHAINLogs[k].metrics = [compliance |-> "90%"]

\* ---------------------------------------------------------------- C22
\* C22: the signature stored with a record, the one sent with it and the one
\* returned to the caller are the same value, which logQCHAIN computed over
\* the data object; a signature field of the caller's is never the one
\* stored or returned.
C22_SignatureAssigned ==
  /\ \A c \in Calls :
       pc[c] = "transmitting"
         => /\ Transmission(c).signature = signature[c]
            /\ persisted[idx[c]].signature = signature[c]
  /\ settled.result.status = "logged"
       => /\ settled.place \in Places
          /\ persisted[settled.place].signature = settled.result.signature
          /\ issued.signature = settled.result.signature
          /\ \E t \in 1..MaxClock :
               issued.signature = CreateQuantumSignature(issued.data, t)
          /\ "signature" \in DOMAIN issued.data
               => issued.data.signature # settled.result.signature

\* a record logged with a signature field of the caller's was stored, sent
\* and confirmed, under the signature of the log
C22_Witness ==
  /\ settled.trail = <<"store", "send", "ack", "return">>
  /\ "signature" \in DOMAIN issued.data
  /\ issued.data.signature = [text |-> "forged"]
  /\ persisted[settled.place].signature = issued.signature
  /\ settled.result.signature = issued.signature

\* ---------------------------------------------------------------- C23
\* C23: every record logQCHAIN stores becomes a new last entry of the store,
\* whatever txId the entries already there have: the earlier entries stay as
\* they are, in their order, also those with the txId of the new record.
C23_NoDeduplication ==
  [][\A c \in Calls :
       (pc[c] = "signing" /\ Len(persisted') = Len(persisted) + 1)
         => /\ Len(GetQCHAINLogs') = Len(GetQCHAINLogs) + 1
            /\ \A k \in 1..Len(GetQCHAINLogs) :
                 GetQCHAINLogs'[k] = GetQCHAINLogs[k]
            /\ \E b \in Calls :
                 GetQCHAINLogs'[Len(GetQCHAINLogs')] = Record(data[b], signature[b])]_vars

\* two different records with the same txId are in the store
C23_Witness ==
  /\ Len(GetQCHAINLogs) = 2
  /\ GetQCHAINLogs[1].txId = GetQCHAINLogs[2].txId
  /\ GetQCHAINLogs[1].metrics # GetQCHAINLogs[2].metrics
  /\ \A c \in Calls : pc[c] = "idle"

\* ---------------------------------------------------------------- C27
\* the last verification was of a record as getQCHAINLogs returns it, against
\* the signature the record carries
StoredRecordVerified ==
  /\ verdict.result.status # "none"
  /\ \E k \in 1..Len(GetQCHAINLogs) : GetQCHAINLogs[k] = verdict.data
  /\ verdict.data.signature = verdict.signature

\* C27 as stated: verifyQCHAINSignature(r, r.signature) resolves to true for
\* every record r of the store.
C27_StoredRecordVerifies ==
  StoredRecordVerified => verdict.result = Resolved(TRUE)

\* ---------------------------------------------------------------- C28
\* the time, as Date.now() read it, at which the call that stored the k-th
\* entry of the store was invoked
InvokedAt(k) ==
  CHOOSE t \in 0..MaxClock : Decimal(t) = GetQCHAINLogs[k].signature.timestamp

\* C28 as stated: the entries of the store are in the order in which their
\* logQCHAIN calls were invoked, overlapping calls included.
C28_CallOrder ==
  \A j, k \in 1..Len(GetQCHAINLogs) : j < k => InvokedAt(j) <= InvokedAt(k)


\* ---------------------------------------------------------------- C24
InWindow(id) ==
  /\ proposals[id].startTime <= blockTimestamp
  /\ blockTimestamp <= proposals[id].endTime

Tallies(id) == <<proposals[id].forVotes, proposals[id].againstVotes>>

Votable(id) ==
  InWindow(id) /\ ~proposals[id].canceled /\ ~proposals[id].executed

\* a proposal's window is set when it is created, from the parameters of that
\* moment, and never moves
C24_WindowStep ==
  \A id \in ProposalIds :
    /\ (id = proposalCount /\ proposalCount' = proposalCount + 1) =>
         /\ proposals'[id].startTime = blockTimestamp + votingDelay
         /\ proposals'[id].endTime = proposals'[id].startTime + votingPeriod
    /\ id < proposalCount =>
         /\ proposals'[id].startTime = proposals[id].startTime
         /\ proposals'[id].endTime = proposals[id].endTime

\* the tallies move only inside the window of a proposal neither canceled nor
\* executed, and a castVote outside it changes nothing of the contract
C24_VoteStep ==
  /\ \A id \in ProposalIds : Tallies(id)' # Tallies(id) => Votable(id)
  /\ \A s \in Senders, id \in ProposalIds, support \in BOOLEAN,
        a \in VoteAmounts :
       storageVars' # storageVars /\ ~Votable(id) => ~CastVote(s, id, support, a)

\* C24: castVote moves a proposal's tallies only while startTime <= now <=
\* endTime, with startTime the creation time plus votingDelay and endTime
\* startTime plus votingPeriod, and only if the proposal is neither canceled
\* nor executed; any other castVote leaves the tallies as they were.
C24_VotingWindow == [][C24_WindowStep /\ C24_VoteStep]_vars

\* a vote is in the tally of a proposal created under the initial parameters,
\* on the last day of its seven-day window
C24_Witness ==
  /\ proposalCount = 1
  /\ Tallies(0) # <<0, 0>>
  /\ proposals[0].endTime = proposals[0].startTime + SevenDays
  /\ blockTimestamp = proposals[0].endTime


\* ---------------------------------------------------------------- C25
TotalVotes(id) == proposals[id].forVotes + proposals[id].againstVotes

\* the votes cast are at least quorumPercentage per cent of the voting power
QuorumReached(id) == TotalVotes(id) * 100 >= quorumPercentage * TotalVotingPower

Majority(id) == proposals[id].forVotes > proposals[id].againstVotes

\* the voting period of a proposal neither canceled nor executed is over
Finished(id) ==
  /\ id < proposalCount
  /\ ~proposals[id].canceled /\ ~proposals[id].executed
  /\ blockTimestamp > proposals[id].endTime

\* C25: a proposal is successful exactly when forVotes + againstVotes is at
\* least quorumPercentage per cent of the total voting power of 1000 (40 votes
\* at the initial 4) and forVotes is strictly greater than againstVotes; once
\* the voting period is over its state is Succeeded in that case and Defeated
\* in every other, a tie and a tally below quorum included.
C25_QuorumAndMajority ==
  \A id \in ProposalIds :
    /\ IsProposalSuccessful(proposals[id], quorumPercentage)
         <=> (QuorumReached(id) /\ Majority(id))
    /\ quorumPercentage = 4 => (QuorumReached(id) <=> TotalVotes(id) >= 40)
    /\ Finished(id) =>
         GetProposalState(id) =
           IF QuorumReached(id) /\ Majority(id) THEN "Succeeded" ELSE "Defeated"

\* the period is over with a tie that reaches the quorum of 40: Defeated
C25_Witness ==
  /\ Finished(0)
  /\ quorumPercentage = 4
  /\ Tallies(0) = <<40, 40>>
  /\ GetProposalState(0) = "Defeated"


\* ---------------------------------------------------------------- C26
MaxVoteAmount == 1600   \* the range sqrt is checked on: 0..MaxVoteAmount

\* r is the integer floor of the square root of x
IsFloorSqrt(r, x) == r * r <= x /\ x < (r + 1) * (r + 1)

\* sqrt takes no state: it is run over the range where the contract has just
\* been deployed
C26_SqrtRange ==
  (blockTimestamp = 1 /\ proposalCount = 0) =>
    \A x \in 0..MaxVoteAmount : IsFloorSqrt(sqrt(x), x)

\* a castVote that went through added the floor square root of voteAmount to
\* the tally of its side and nothing to the other
C26_VoteStep ==
  \A s \in Senders, id \in ProposalIds, support \in BOOLEAN, a \in VoteAmounts :
    (storageVars' # storageVars /\ CastVote(s, id, support, a)) =>
      LET addedFor == proposals'[id].forVotes - proposals[id].forVotes
          addedAgainst == proposals'[id].againstVotes - proposals[id].againstVotes
      IN  IF support
            THEN IsFloorSqrt(addedFor, a) /\ addedAgainst = 0
            ELSE IsFloorSqrt(addedAgainst, a) /\ addedFor = 0

C29_ExecuteStep ==
  \A id \in ProposalIds :
    /\ (proposals'[id].executed /\ ~proposals[id].executed) =>
         GetProposalState(id) = "Succeeded"
    /\ allocated'[id] # allocated[id] =>
         /\ GetProposalState(id) = "Succeeded"
         /\ ~proposals[id].executed /\ proposals'[id].executed
         /\ allocated'[id] = allocated[id] + 1
    /\ proposals[id].executed => proposals'[id].executed

C29_Executions ==
  \A id \in ProposalIds :
    /\ allocated[id] <= 1
    /\ proposals[id].executed <=> allocated[id] = 1
    /\ ~(proposals[id].executed /\ proposals[id].canceled)
    /\ id >= proposalCount => ~proposals[id].executed /\ allocated[id] = 0

\* C29: over any sequence of createProposal, castVote, cancelProposal,
\* executeProposal, updateVotingParameters and time advances, a proposal is
\* marked executed only if its state was Succeeded at that moment, it is
\* executed at most once, no proposal is both executed and canceled, and an id
\* never created is never executed.
C29_ExecutionSafety == []C29_Executions /\ [][C29_ExecuteStep]_vars

\* the proposal has been executed, and time has gone on since
C29_Witness ==
  /\ proposals[0].executed /\ allocated[0] = 1
  /\ GetProposalState(0) = "Executed"
  /\ blockTimestamp > proposals[0].endTime + 1


\* ---------------------------------------------------------------- C30
\* the state of the proposal after the step
NextProposalState(id) ==
  ProposalState(proposals'[id], blockTimestamp', quorumPercentage')

C30_OutcomeStep ==
  \A id \in ProposalIds :
    id < proposalCount =>
      /\ GetProposalState(id) = "Defeated" => NextProposalState(id) = "Defeated"
      /\ GetProposalState(id) = "Succeeded" =>
           NextProposalState(id) \in {"Succeeded", "Executed"}

\* C30: once the voting period of a proposal has ended its outcome is fixed: a
\* Defeated proposal stays Defeated and a Succeeded one stays Succeeded until
\* it is Executed, whatever updateVotingParameters calls or time advances
\* follow.
C30_OutcomeStable == [][C30_OutcomeStep]_vars


\* ---------------------------------------------------------------- C31
getVotesCast(proposalId, voter) == proposals[proposalId].votesCast[voter]

\* the record of a voter on a proposal grows by the amount of each vote of
\* theirs that goes through, and by nothing else
C31_RecordStep ==
  /\ \A s \in Senders, id \in ProposalIds, support \in BOOLEAN,
        a \in VoteAmounts :
       (storageVars' # storageVars /\ CastVote(s, id, support, a)) =>
         getVotesCast(id, s)' = getVotesCast(id, s) + a
  /\ \A s \in Senders, id \in ProposalIds :
       Tallies(id)' = Tallies(id) => getVotesCast(id, s)' = getVotesCast(id, s)

\* C31: for every proposal and voter, getVotesCast(proposalId, voter) is the
\* total vote amount the voter has cast on the proposal over all their
\* successful castVote calls: it starts at 0 and every such call adds its
\* voteAmount.
C31_VoteRecord == [][C31_RecordStep]_vars


\* ---------------------------------------------------------------- C32
RECURSIVE SumOver(_, _)
SumOver(f, S) ==
  IF S = {} THEN 0
  ELSE LET a == CHOOSE a \in S : TRUE IN f[a] + SumOver(f, S \ {a})

\* everything the trust holds or has given out
TrustValue ==
  daoTrust + sovereignReserve + heirReserve + SumOver(trustAllocations, Actors)

\* C32: after any sequence of allocateDAOGift, allocatePersonalGift,
\* allocateHeirReserve, lockNonHarmonicActors and unlockActors, reverted or
\* not, daoTrust + sovereignReserve + heirReserve + the sum of all
\* trustAllocations is the 360000 it started as.
C32_Conservation == TrustValue = 360000

\* all three pools have paid out, and the allocation of a locked actor has come
\* back into the sovereign reserve, now above what it started with
C32_Witness ==
  /\ daoTrust < InitialDaoTrust
  /\ heirReserve < InitialHeirReserve
  /\ sovereignReserve > InitialSovereignReserve
  /\ \E a \in Actors : lockedActors[a]
  /\ \E a \in Actors : trustAllocations[a] > 0


\* ---------------------------------------------------------------- C33
\* C33: in every reachable state getTotalAllocated succeeds and returns the
\* sum of trustAllocations over all recipients.
C33_TotalAllocated == getTotalAllocated = Value(SumOver(trustAllocations, Actors))


\* ---------------------------------------------------------------- C34
C34_LockedHoldNothing ==
  \A a \in Actors : lockedActors[a] => trustAllocations[a] = 0

\* what the step took from the allocation of actor a
Taken(a) ==
  IF trustAllocations'[a] < trustAllocations[a]
    THEN trustAllocations[a] - trustAllocations'[a]
    ELSE 0

\* an allocation goes down only to 0, for an actor the step leaves locked, and
\* into the sovereign reserve; it goes up only for an actor that is not locked
C34_LockStep ==
  /\ \A a \in Actors :
       /\ trustAllocations'[a] < trustAllocations[a] =>
            lockedActors'[a] /\ trustAllocations'[a] = 0
       /\ trustAllocations'[a] > trustAllocations[a] => ~lockedActors[a]
  /\ (\E a \in Actors : trustAllocations'[a] < trustAllocations[a]) =>
       sovereignReserve' =
         sovereignReserve + SumOver([a \in Actors |-> Taken(a)], Actors)

\* C34: in every reachable state an actor whose lockedActors flag is true has
\* trustAllocations of 0; locking returns the actor's allocation to the
\* sovereign reserve, and no allocate call credits an actor while it is
\* locked.
C34_LockedActors == []C34_LockedHoldNothing /\ [][C34_LockStep]_vars

\* one actor was locked with an allocation, which is back in the sovereign
\* reserve, while the other still holds one
C34_Witness ==
  /\ lockedActors["x"] /\ trustAllocations["x"] = 0
  /\ ~lockedActors["y"] /\ trustAllocations["y"] > 0
  /\ sovereignReserve > InitialSovereignReserve


\* ---------------------------------------------------------------- C35
CheckAmounts == {0, 99, 100}

\* C35: in every reachable state checkCompliance(entity, amount) is false for
\* every blacklisted entity, whatever its verification flag, its score and the
\* amount; for an entity not blacklisted it is true exactly when the entity is
\* verified with a score of at least complianceThreshold, or is unverified and
\* the amount is below 100.
C35_BlacklistDominates ==
  \A e \in Entities, a \in CheckAmounts :
    /\ blacklistedEntities[e] => ~checkCompliance(e, a)
    /\ ~blacklistedEntities[e] =>
         (checkCompliance(e, a) <=>
            \/ verifiedEntities[e] /\ complianceScores[e] >= complianceThreshold
            \/ ~verifiedEntities[e] /\ a < 100)

\* one entity is blacklisted although verified with a score that passes, the
\* other is neither blacklisted nor verified
C35_Witness ==
  /\ blacklistedEntities["0xE"] /\ verifiedEntities["0xE"]
  /\ complianceScores["0xE"] >= complianceThreshold
  /\ ~blacklistedEntities["0x0"] /\ ~verifiedEntities["0x0"]

\* ---------------------------------------------------------------- C36
\* the entity the request was made for
Named(id) == requests[id].address.hex

\* the step fulfils request id
Fulfils(id) ==
  requests[id].status = "pending" /\ requests'[id].status = "fulfilled"

C36_FulfilStep ==
  \A id \in RequestIds :
    Fulfils(id) =>
      /\ verifiedEntities'[Named(id)]
      /\ complianceScores'[Named(id)] = requests'[id].score
      /\ \A e \in Entities \ {Named(id)} :
           /\ verifiedEntities'[e] = verifiedEntities[e]
           /\ complianceScores'[e] = complianceScores[e]

\* C36: when a request made by requestComplianceVerification(entity) is
\* fulfilled by fulfillComplianceVerification with score s, the entity named in
\* the request is marked verified with complianceScores[entity] = s, and no
\* other entity's score or verified flag changes.
C36_VerificationRoundTrip == [][C36_FulfilStep]_vars


\* ---------------------------------------------------------------- C37
\* the canon the Map holds for a number
Canon(n) == objects[canons[n]]

C37_SealedAreWitnessed ==
  \A n \in CanonNumbers : (Has(n) /\ Canon(n).sealed) => Canon(n).witnessed

\* a sealCanon of a number with no canon, or with one not witnessed, throws
\* and changes no canon
C37_RefusalStep ==
  \A n \in NumberArgs :
    (SealCanonStart(n) /\ (~Has(n) \/ ~Canon(n).witnessed)) =>
      /\ outcome'.call = "sealCanon" /\ outcome'.error # ""
      /\ sealPc' = "idle"
      /\ UNCHANGED <<canons, objects>>

\* C37: after any sequence of declareCanon, witnessCanon and sealCanon every
\* canon that is sealed is also witnessed; sealCanon on a canon that is not
\* witnessed, or that does not exist, fails with an error and leaves the canon
\* unchanged.
C37_SealRequiresWitness == []C37_SealedAreWitnessed /\ [][C37_RefusalStep]_vars

\* the canon declared under a new number has been witnessed and sealed, and
\* the last call, a sealCanon, was refused
C37_Witness ==
  /\ Has("C") /\ Canon("C").sealed /\ Canon("C").witnessedBy = "Dinah"
  /\ outcome = [call |-> "sealCanon", error |-> "not found"]


\* ---------------------------------------------------------------- C38
\* an Ethiopian date with month in 1..13 and day in 1..30, 1..6 for month 13
InCalendar(t) ==
  /\ t.ethiopian.month \in 1..13
  /\ t.ethiopian.day \in (IF t.ethiopian.month = 13 THEN 1..6 ELSE 1..30)

SameDate(t, u) ==
  /\ t.ethiopian.year = u.ethiopian.year
  /\ t.ethiopian.month = u.ethiopian.month
  /\ t.ethiopian.day = u.ethiopian.day

\* C38: for every Ethiopian date with month in 1..13 and day in 1..30 (1..6
\* for month 13), parseSpiralTime(formatSpiralTime(t)) yields the same
\* Ethiopian year, month and day as t.
C38_FormatParseRoundTrip ==
  (clockPc = "parsed" /\ InCalendar(currentTime)) =>
    /\ parsedTime.error = ""
    /\ SameDate(parsedTime.value, currentTime)

====
